---- MODULE Spec2Model ----
(***************************************************************************)
(* A model of mcircuit: the gate algebra (Operation<T>, CombineOperation), *)
(* its capability traits (HasIO, Translatable, Identity), the wire         *)
(* identity registry (WireHasher), the BLIF parser (BlifParser), the       *)
(* interpreters (evaluate_composite_program, dump_vcd) and the witness     *)
(* parser (WitnessParser).                                                 *)
(*                                                                         *)
(* Eleven specifications share the module:                                 *)
(*   SpecGate        the pure functions of the gate algebra applied to a   *)
(*                   gate                                                  *)
(*   SpecHasher      a WireHasher receiving get_wire_id calls              *)
(*   SpecParser      a BlifParser receiving add_file and next calls        *)
(*   SpecGateLines   a BlifParser on one file of gate lines, drained by    *)
(*                   next                                                  *)
(*   SpecNames       a BlifParser receiving files whose names hold "::"    *)
(*   SpecSubckt      a BlifParser on one file of .subckt and .attr lines,  *)
(*                   drained by next                                       *)
(*   SpecPackedGates a BlifParser on one file of .subckt, .attr and .conn  *)
(*                   lines                                                 *)
(*   SpecIO          a BlifParser on one file with an .inputs line         *)
(*   SpecPackedIO    a BlifParser on one file of I/O, .subckt, .attr and   *)
(*                   .conn lines                                           *)
(*   SpecEval        evaluate_composite_program and dump_vcd run on one    *)
(*                   program                                               *)
(*   SpecWitness     a WitnessParser iterated over one stream              *)
(* Each one leaves the variables of the others at their initial value.     *)
(***************************************************************************)
EXTENDS Integers, Sequences, FiniteSets, TLC

VARIABLES
    gate,              \* SpecGate: the gate the functions are applied to
    dom,               \* SpecGate: its value type T, or "combine"
    call,              \* SpecGate: the last call made on the gate
    ret,               \* SpecGate: what that call returned
    debug_assertions,  \* the build: TRUE = overflow checks on (cfg(debug_assertions))
    hasher,            \* WireHasher { hashes, reverse }
    queried,           \* SpecHasher: the names passed to get_wire_id, in call order
    returned,          \* SpecHasher: the ids those calls returned
    reader,            \* BlifParser.reader: None or Some(file)
    parsed,            \* BlifParser.parsed
    circuit,           \* BlifParser.circuit: queue of finished descriptors
    fatal,             \* SpecParser: None, or the panic that ended the process
    log,               \* SpecParser: observations of the parse runs
    program,           \* SpecEval: the program and the external inputs of a run
    evaluation,        \* SpecEval: the run of evaluate_composite_program
    dump,              \* SpecEval: the run of dump_vcd
    witness            \* SpecWitness: WitnessParser { buf, reader } and its results

vars == <<gate, dom, call, ret, debug_assertions, hasher, queried, returned,
          reader, parsed, circuit, fatal, log, program, evaluation, dump,
          witness>>

gateVars == <<gate, dom, call, ret>>
hasherVars == <<queried, returned>>
parserVars == <<reader, parsed, circuit, fatal, log>>
evalVars == <<program, evaluation, dump, witness>>

(* The evaluator and the witness parser before any run. *)
InitOthersOfEval ==
    /\ program = <<>>
    /\ evaluation = <<>>
    /\ dump = <<>>
    /\ witness = <<>>

(***************************************************************************)
(* Option<T> and fatal errors.                                             *)
(***************************************************************************)
None == <<"None">>

Some(x) == <<"Some", x>>

IsSome(o) == o[1] = "Some"

Panic(msg) == <<"Panic", msg>>

IsPanic(r) == r[1] = "Panic"

(***************************************************************************)
(* usize.  The model's usize has UsizeMax as its largest value; an         *)
(* addition that exceeds it panics in a debug build and wraps in a release *)
(* build.  Poison stands for an iterator element whose computation panics  *)
(* when the element is pulled.                                             *)
(***************************************************************************)
UsizeMax == 127

Usize == 0..UsizeMax

Poison == 0 - 1

AddUsize(a, b) ==
    IF a + b <= UsizeMax THEN a + b
    ELSE IF debug_assertions THEN Poison
    ELSE (a + b) % (UsizeMax + 1)

(***************************************************************************)
(* Wire values.  bool is modelled by BOOLEAN, the integer types by samples *)
(* that hold their zero, their one and another value.                      *)
(***************************************************************************)
Domains == {"bool", "u8", "u64", "U256"}

TValues(T) ==
    IF T = "bool" THEN BOOLEAN
    ELSE IF T = "u8" THEN {0, 1, 255}
    ELSE {0, 1, 2}

(***************************************************************************)
(* Operation<T>: a gate is the tuple of its variant name and its fields,   *)
(* in the order of the Rust variant.                                       *)
(***************************************************************************)
InputOps == {"Input", "Random"}

BinaryOps == {"Add", "Sub", "Mul"}

BinaryConstOps == {"AddConst", "SubConst", "MulConst"}

OperationsOver(T, W) ==
    {<<v, d>> : v \in InputOps, d \in W}
    \cup {<<v, d, a, b>> : v \in BinaryOps, d \in W, a \in W, b \in W}
    \cup {<<v, d, a, c>> : v \in BinaryConstOps, d \in W, a \in W, c \in TValues(T)}
    \cup {<<"AssertZero", a>> : a \in W}
    \cup {<<"AssertConst", a, c>> : a \in W, c \in TValues(T)}
    \cup {<<"Const", d, c>> : d \in W, c \in TValues(T)}

(* The CombineOperation variant that wraps Operation<T>. *)
WrapperOf(T) ==
    IF T = "bool" THEN "GF2"
    ELSE IF T = "u8" THEN "GF2AsU8"
    ELSE IF T = "u64" THEN "Z64"
    ELSE "Z256"

Wrappers == {"GF2", "GF2AsU8", "Z64", "Z256"}

CombineOperationsOver(W) ==
    UNION {{<<WrapperOf(T), op>> : op \in OperationsOver(T, W)} : T \in Domains}
    \cup {<<"B2A", d, low>> : d \in W, low \in W}
    \cup {<<"SizeHint", a, b>> : a \in W, b \in W}

(***************************************************************************)
(* HasIO.  XIteratorNext(op, index) is what next() returns when the        *)
(* iterator's index field is `index`; next() then adds one to the index.   *)
(***************************************************************************)
(* The assertion gate of the earlier lineage, AssertConst(src, c): one
   input, no output. *)
AssertConstInputNext(op, index) == IF index = 0 THEN Some(op[2]) ELSE None

AssertConstOutputNext(op, index) == None

(* A plausible slip: the second operand yielded first. *)
BinaryInputNextReversed(op, index) ==
    IF index = 0 THEN Some(op[4])
    ELSE IF index = 1 THEN Some(op[3])
    ELSE None

(* Sub(_, a, b), Add(_, a, b), Mul(_, a, b) *)
BinaryInputNext(op, index) ==
    IF index = 0 THEN Some(op[3])
    ELSE IF index = 1 THEN Some(op[4])
    ELSE None

InputIteratorNext(op, index) ==
    CASE op[1] \in InputOps -> None
      [] op[1] \in BinaryOps -> BinaryInputNext(op, index)
      [] op[1] \in BinaryConstOps -> IF index = 0 THEN Some(op[3]) ELSE None
      [] op[1] = "AssertZero" -> IF index = 0 THEN Some(op[2]) ELSE None
      [] op[1] = "AssertConst" -> AssertConstInputNext(op, index)
      [] op[1] = "Const" -> None

OutputIteratorNext(op, index) ==
    CASE op[1] \in InputOps \cup BinaryOps \cup BinaryConstOps \cup {"Const"} ->
            IF index = 0 THEN Some(op[2]) ELSE None
      [] op[1] = "AssertZero" -> None
      [] op[1] = "AssertConst" -> AssertConstOutputNext(op, index)

(* Iterator::nth(n) on an iterator of an Operation whose index is i: n + 1
   calls of next(), ended by the first None. *)
RECURSIVE InputNth(_, _, _)
InputNth(op, i, n) ==
    LET r == InputIteratorNext(op, i)
    IN IF ~IsSome(r) THEN None
       ELSE IF n = 0 THEN r
       ELSE InputNth(op, i + 1, n - 1)

RECURSIVE OutputNth(_, _, _)
OutputNth(op, i, n) ==
    LET r == OutputIteratorNext(op, i)
    IN IF ~IsSome(r) THEN None
       ELSE IF n = 0 THEN r
       ELSE OutputNth(op, i + 1, n - 1)

B2AWidth == 64

(* The variants the iterators and translate of CombineOperation match on. *)
IOWrappers == {"GF2", "Z64"}

(* A plausible slip: one wire too many. *)
B2AInputNextOffByOne(g, index) ==
    IF index <= B2AWidth THEN Some(AddUsize(g[3], index)) ELSE None

(* B2A(_, base) *)
B2AInputNext(g, index) ==
    IF index < B2AWidth THEN Some(AddUsize(g[3], index)) ELSE None

CombineInputIteratorNext(g, index) ==
    CASE g[1] \in IOWrappers -> InputNth(g[2], 0, index)
      [] g[1] = "B2A" -> B2AInputNext(g, index)
      [] g[1] = "SizeHint" -> None

CombineOutputIteratorNext(g, index) ==
    CASE g[1] \in IOWrappers -> OutputNth(g[2], 0, index)
      [] g[1] = "B2A" -> IF index = 0 THEN Some(g[2]) ELSE None
      [] g[1] = "SizeHint" -> None

IsCombine(g) == g[1] \in Wrappers \cup {"B2A", "SizeHint"}

(* The iterator as the sequence of the elements it yields before its first
   None; an element is Poison when computing it panics. *)
RECURSIVE InputsFrom(_, _)
InputsFrom(g, index) ==
    LET r == IF IsCombine(g) THEN CombineInputIteratorNext(g, index)
             ELSE InputIteratorNext(g, index)
    IN IF ~IsSome(r) THEN <<>> ELSE <<r[2]>> \o InputsFrom(g, index + 1)

RECURSIVE OutputsFrom(_, _)
OutputsFrom(g, index) ==
    LET r == IF IsCombine(g) THEN CombineOutputIteratorNext(g, index)
             ELSE OutputIteratorNext(g, index)
    IN IF ~IsSome(r) THEN <<>> ELSE <<r[2]>> \o OutputsFrom(g, index + 1)

inputs(g) == InputsFrom(g, 0)

outputs(g) == OutputsFrom(g, 0)

(* Iterator::collect: pulls every element. *)
collect(iter) ==
    IF \E i \in 1..Len(iter) : iter[i] = Poison
    THEN Panic("attempt to add with overflow")
    ELSE iter

(* Iterator::map: lazy, the mapper runs when an element is pulled. *)
MapIter(iter, f) ==
    [i \in 1..Len(iter) |-> IF iter[i] = Poison THEN Poison ELSE f[iter[i]]]

(* HasIO::dst *)
dst(g) == IF Len(outputs(g)) = 0 THEN None ELSE Some(outputs(g)[1])

(***************************************************************************)
(* OpType and Operation::construct.  A shape tag is <<shape, variant>>:    *)
(* the shape and the variant constructor it carries.  `inputs` and         *)
(* `outputs` are iterators; the arguments of the constructor are evaluated *)
(* left to right, so the first missing one decides the panic.              *)
(***************************************************************************)
Shapes == {"InputOp", "InputConstOp", "OutputOp", "OutputConstOp", "BinaryOp",
           "BinaryConstOp"}

(* Iterator::next().expect(msg) for the k-th pull of the iterator. *)
NextExpect(iter, k, msg) ==
    IF k > Len(iter) THEN Panic(msg)
    ELSE IF iter[k] = Poison THEN Panic("attempt to add with overflow")
    ELSE Some(iter[k])

(* Option::expect(msg) *)
expect(opt, msg) == IF IsSome(opt) THEN opt ELSE Panic(msg)

(* The first panic among the evaluated arguments, or the built gate. *)
FirstPanicOr(args, built) ==
    IF \E i \in 1..Len(args) : IsPanic(args[i])
    THEN args[CHOOSE i \in 1..Len(args) :
                /\ IsPanic(args[i])
                /\ \A j \in 1..(i - 1) : ~IsPanic(args[j])]
    ELSE built

(* The shape of the assertion gate without a constant, AssertZero(src):
   (src). *)
constructOutputOp(ty, inputs_, outputs_, constant) ==
    LET a == NextExpect(inputs_, 1, "OutputOp requires an input wire")
    IN FirstPanicOr(<<a>>, <<ty[2], a[2]>>)

(* The arm of each shape of construct. *)
constructInputOp(ty, inputs_, outputs_, constant) ==
    LET o == NextExpect(outputs_, 1, "InputOp requires an output wire")
    IN FirstPanicOr(<<o>>, <<ty[2], o[2]>>)

constructInputConstOp(ty, inputs_, outputs_, constant) ==
    LET o == NextExpect(outputs_, 1, "InputConstOp requires an output wire")
        c == expect(constant, "InputConstOp requires a constant operand")
    IN FirstPanicOr(<<o, c>>, <<ty[2], o[2], c[2]>>)

constructOutputConstOp(ty, inputs_, outputs_, constant) ==
    LET a == NextExpect(inputs_, 1, "OutputConstOp requires an input wire")
        c == expect(constant, "OutputConstOp requires a constant operand")
    IN FirstPanicOr(<<a, c>>, <<ty[2], a[2], c[2]>>)

(* A plausible slip: the two operands taken in the wrong order. *)
constructBinaryOpSwapped(ty, inputs_, outputs_, constant) ==
    LET o == NextExpect(outputs_, 1, "BinaryOp requires an output wire")
        a == NextExpect(inputs_, 1, "BinaryOp requires two input wires")
        b == NextExpect(inputs_, 2, "BinaryOp requires two input wires")
    IN FirstPanicOr(<<o, a, b>>, <<ty[2], o[2], b[2], a[2]>>)

constructBinaryOp(ty, inputs_, outputs_, constant) ==
    LET o == NextExpect(outputs_, 1, "BinaryOp requires an output wire")
        a == NextExpect(inputs_, 1, "BinaryOp requires two input wires")
        b == NextExpect(inputs_, 2, "BinaryOp requires two input wires")
    IN FirstPanicOr(<<o, a, b>>, <<ty[2], o[2], a[2], b[2]>>)

(* A plausible slip: the source wire where the destination belongs. *)
constructBinaryConstOpSwapped(ty, inputs_, outputs_, constant) ==
    LET o == NextExpect(outputs_, 1, "BinaryConstOp requires an output wire")
        a == NextExpect(inputs_, 1, "BinaryConstOp requires an input wire")
        c == expect(constant, "BinaryConstOp requires a constant operand")
    IN FirstPanicOr(<<o, a, c>>, <<ty[2], a[2], o[2], c[2]>>)

constructBinaryConstOp(ty, inputs_, outputs_, constant) ==
    LET o == NextExpect(outputs_, 1, "BinaryConstOp requires an output wire")
        a == NextExpect(inputs_, 1, "BinaryConstOp requires an input wire")
        c == expect(constant, "BinaryConstOp requires a constant operand")
    IN FirstPanicOr(<<o, a, c>>, <<ty[2], o[2], a[2], c[2]>>)

construct(ty, inputs_, outputs_, constant) ==
    CASE ty[1] = "InputOp" -> constructInputOp(ty, inputs_, outputs_, constant)
      [] ty[1] = "InputConstOp" -> constructInputConstOp(ty, inputs_, outputs_, constant)
      [] ty[1] = "OutputConstOp" -> constructOutputConstOp(ty, inputs_, outputs_, constant)
      [] ty[1] = "BinaryOp" -> constructBinaryOp(ty, inputs_, outputs_, constant)
      [] ty[1] = "BinaryConstOp" -> constructBinaryConstOp(ty, inputs_, outputs_, constant)
      [] ty[1] = "OutputOp" -> constructOutputOp(ty, inputs_, outputs_, constant)

(* The panics of construct: the shape violations. *)
ShapeViolations ==
    {"InputOp requires an output wire", "InputConstOp requires an output wire",
     "InputConstOp requires a constant operand",
     "OutputConstOp requires an input wire",
     "OutputConstOp requires a constant operand",
     "BinaryOp requires an output wire", "BinaryOp requires two input wires",
     "BinaryConstOp requires an output wire",
     "BinaryConstOp requires an input wire",
     "BinaryConstOp requires a constant operand",
     "OutputOp requires an input wire"}

(***************************************************************************)
(* Translatable.  translate returns None, Some(gate), or panics.           *)
(***************************************************************************)
(* Option<Operation>: Some of the constructed gate, the panic passed on. *)
SomeOrPanic(r) == IF IsPanic(r) THEN r ELSE Some(r)

(* Operation::AssertConst(_, c), the arm of the earlier lineage. *)
translateAssertConst(op, win, wout) ==
    SomeOrPanic(construct(<<"OutputConstOp", "AssertConst">>, win, wout, Some(op[3])))

translate(op, win, wout) ==
    CASE op[1] \in InputOps ->
            SomeOrPanic(construct(<<"InputOp", op[1]>>, win, wout, None))
      [] op[1] \in BinaryOps ->
            SomeOrPanic(construct(<<"BinaryOp", op[1]>>, win, wout, None))
      [] op[1] \in BinaryConstOps ->
            SomeOrPanic(construct(<<"BinaryConstOp", op[1]>>, win, wout, Some(op[4])))
      [] op[1] = "AssertZero" ->
            SomeOrPanic(construct(<<"OutputOp", "AssertZero">>, win, wout, None))
      [] op[1] = "AssertConst" -> translateAssertConst(op, win, wout)
      [] op[1] = "Const" ->
            SomeOrPanic(construct(<<"InputConstOp", "Const">>, win, wout, Some(op[3])))

(* Option<Operation>::expect(msg), then the wrapper variant around it. *)
WrapTranslated(tag, r, msg) ==
    IF IsPanic(r) THEN r
    ELSE IF ~IsSome(r) THEN Panic(msg)
    ELSE Some(<<tag, r[2]>>)

translateB2A(g, win, wout) ==
    LET o == NextExpect(wout, 1, "B2A needs a Z64 output")
        i == NextExpect(win, 1, "B2A needs a GF2 input")
    IN SomeOrPanic(FirstPanicOr(<<o, i>>, <<"B2A", o[2], i[2]>>))

(* A plausible slip: the size hint rebuilt from the iterators, like B2A. *)
translateSizeHintRebuilt(g, win, wout) ==
    LET o == NextExpect(wout, 1, "SizeHint needs a Z64 count")
        i == NextExpect(win, 1, "SizeHint needs a GF2 count")
    IN SomeOrPanic(FirstPanicOr(<<o, i>>, <<"SizeHint", o[2], i[2]>>))

translateSizeHint(g, win, wout) == None

translateCombine(g, win, wout) ==
    CASE g[1] = "GF2" ->
            WrapTranslated("GF2", translate(g[2], win, wout),
                           "Could not translate underlying GF2 gate")
      [] g[1] = "Z64" ->
            WrapTranslated("Z64", translate(g[2], win, wout),
                           "Could not translate underlying Z64 gate")
      [] g[1] = "B2A" -> translateB2A(g, win, wout)
      [] g[1] = "SizeHint" -> translateSizeHint(g, win, wout)

(* Translatable::translate, by the type of self. *)
Translate(g, win, wout) ==
    IF IsCombine(g) THEN translateCombine(g, win, wout) ELSE translate(g, win, wout)

(* HashMap<usize, usize>: a function from its keys to their values.
   table.get(&x).unwrap_or(&x) *)
GetOrZero(table, x) == IF x \in DOMAIN table THEN table[x] ELSE 0

GetOr(table, x) == IF x \in DOMAIN table THEN table[x] ELSE x

MapThroughTable(iter, table) ==
    [i \in 1..Len(iter) |-> IF iter[i] = Poison THEN Poison ELSE GetOr(table, iter[i])]

translate_from_hashmap(g, translation_table) ==
    Translate(g, MapThroughTable(inputs(g), translation_table),
                 MapThroughTable(outputs(g), translation_table))

(* The mappers are functions Usize -> Usize. *)
translate_from_fn(g, input_mapper, output_mapper) ==
    Translate(g, MapIter(inputs(g), input_mapper), MapIter(outputs(g), output_mapper))

(***************************************************************************)
(* Identity<T>.                                                            *)
(***************************************************************************)
(* A plausible slip: MulConst tested against zero like the other two. *)
is_identityAllZero(T, op) ==
    IF T = "bool"
    THEN CASE op[1] \in BinaryConstOps -> ~op[4]
           [] OTHER -> FALSE
    ELSE CASE op[1] \in BinaryConstOps -> op[4] = 0
           [] OTHER -> FALSE

is_identity(T, op) ==
    IF T = "bool"
    THEN CASE op[1] = "AddConst" -> ~op[4]
           [] op[1] = "SubConst" -> ~op[4]
           [] op[1] = "MulConst" -> op[4]
           [] OTHER -> FALSE
    ELSE CASE op[1] = "AddConst" -> op[4] = 0
           [] op[1] = "SubConst" -> op[4] = 0
           [] op[1] = "MulConst" -> op[4] = 1
           [] OTHER -> FALSE

identity(T, w_out, w_in) ==
    IF T = "bool" THEN <<"AddConst", w_out, w_in, FALSE>>
    ELSE <<"AddConst", w_out, w_in, 0>>

(* impl Identity<T> for CombineOperation *)
is_identity_combine(T, g) ==
    IF g[1] = WrapperOf(T) THEN is_identity(T, g[2]) ELSE FALSE

identity_combine(T, w_out, w_in) == <<WrapperOf(T), identity(T, w_out, w_in)>>

(***************************************************************************)
(* SpecGate: a gate is drawn, and the functions of the traits are applied  *)
(* to it; Rebind continues with the gate a translation returned.           *)
(***************************************************************************)
WireSamples == {0, 1, UsizeMax}

(* Lows of B2A without and with an overflow among low .. low + 63. *)
B2ALows == {0, UsizeMax - (B2AWidth - 1), UsizeMax - (B2AWidth - 2), UsizeMax}

MaxIterLen == 2

MaxRebinds == 1

SeqsUpTo(S, n) == UNION {[1..k -> S] : k \in 0..n}

(* The wires handed to translate, and the values of the translation tables. *)
TargetSamples == {2, UsizeMax}

Tables == UNION {[D -> TargetSamples] : D \in SUBSET WireSamples}

MapperNames == {"id", "succ", "zero"}

(* fn(usize) -> usize *)
Mapper(name) ==
    CASE name = "id" -> [x \in Usize |-> x]
      [] name = "succ" -> [x \in Usize |-> (x + 1) % (UsizeMax + 1)]
      [] name = "zero" -> [x \in Usize |-> 0]

GateSamples(T) ==
    IF T = "combine"
    THEN CombineOperationsOver(WireSamples)
         \cup {<<"B2A", d, low>> : d \in WireSamples, low \in B2ALows}
    ELSE OperationsOver(T, WireSamples)

(* The gates HasIO and Translatable are implemented for. *)
HasIOGate(g) == IsCombine(g) => g[1] \in IOWrappers \cup {"B2A", "SizeHint"}

InitOthersOfGate ==
    /\ hasher = <<>>
    /\ queried = <<>>
    /\ returned = <<>>
    /\ reader = None
    /\ parsed = FALSE
    /\ circuit = <<>>
    /\ fatal = None
    /\ log = <<>>
    /\ InitOthersOfEval

(* The build decides what a usize addition does on overflow, and of the
   functions applied here only the input iterator of B2A adds. *)
InitGate ==
    /\ dom \in Domains \cup {"combine"}
    /\ gate \in GateSamples(dom)
    /\ debug_assertions \in IF gate[1] = "B2A" THEN BOOLEAN ELSE {TRUE}
    /\ call = <<"new", 0>>
    /\ ret = None
    /\ InitOthersOfGate

Returns(c, r) ==
    /\ call[1] = "new"
    /\ call' = c
    /\ ret' = r
    /\ UNCHANGED <<gate, dom, debug_assertions, hasher, hasherVars, parserVars,
                 evalVars>>

Rebinds == call[Len(call)]

DoInputs ==
    /\ HasIOGate(gate)
    /\ Returns(<<"inputs", Rebinds>>, collect(inputs(gate)))

DoOutputs ==
    /\ HasIOGate(gate)
    /\ Returns(<<"outputs", Rebinds>>, collect(outputs(gate)))

DoTranslate ==
    /\ HasIOGate(gate)
    /\ \E win \in SeqsUpTo(TargetSamples, MaxIterLen), wout \in SeqsUpTo(TargetSamples, 1) :
          Returns(<<"translate", win, wout, Rebinds>>, Translate(gate, win, wout))

(* g.translate(g.inputs(), g.outputs()) *)
DoTranslateSelf ==
    /\ HasIOGate(gate)
    /\ Returns(<<"translate_self", Rebinds>>, Translate(gate, inputs(gate), outputs(gate)))

DoTranslateFromHashmap ==
    /\ HasIOGate(gate)
    /\ \E table \in Tables :
          Returns(<<"translate_from_hashmap", table, Rebinds>>,
                  translate_from_hashmap(gate, table))

DoTranslateFromFn ==
    /\ HasIOGate(gate)
    /\ \E fi \in MapperNames, fo \in MapperNames :
          Returns(<<"translate_from_fn", fi, fo, Rebinds>>,
                  translate_from_fn(gate, Mapper(fi), Mapper(fo)))

DoIsIdentity ==
    \/ /\ dom # "combine"
       /\ Returns(<<"is_identity", dom, Rebinds>>, is_identity(dom, gate))
    \/ /\ dom = "combine"
       /\ \E T \in Domains :
             Returns(<<"is_identity", T, Rebinds>>, is_identity_combine(T, gate))

DoIdentity ==
    \E w_out \in WireSamples, w_in \in TargetSamples :
       \/ /\ dom # "combine"
          /\ Returns(<<"identity", dom, w_out, w_in, Rebinds>>,
                     Some(identity(dom, w_out, w_in)))
       \/ /\ dom = "combine"
          /\ \E T \in Domains :
                Returns(<<"identity", T, w_out, w_in, Rebinds>>,
                        Some(identity_combine(T, w_out, w_in)))

(* let gate = <the gate the last call returned>; *)
Rebind ==
    /\ Rebinds < MaxRebinds
    /\ call[1] \in {"translate_from_fn", "identity"}
    /\ IsSome(ret)
    /\ gate' = ret[2]
    /\ call' = <<"new", Rebinds + 1>>
    /\ ret' = None
    /\ UNCHANGED <<dom, debug_assertions, hasher, hasherVars, parserVars,
                 evalVars>>

NextGate ==
    \/ DoInputs
    \/ DoOutputs
    \/ DoTranslate
    \/ DoTranslateSelf
    \/ DoTranslateFromHashmap
    \/ DoTranslateFromFn
    \/ DoIsIdentity
    \/ DoIdentity
    \/ Rebind

SpecGate == InitGate /\ [][NextGate]_vars

(***************************************************************************)
(* Properties of the gate algebra (SpecGate).                              *)
(***************************************************************************)
Translations == {"translate", "translate_self", "translate_from_hashmap",
                 "translate_from_fn"}

(* The inner gate of a GF2/Z64 wrapper, the gate itself otherwise. *)
Inner(g) == IF g[1] \in Wrappers THEN g[2] ELSE g

(* The numbers of input and output wire fields of a gate's variant. *)
InArity(g) ==
    LET v == Inner(g)[1]
    IN IF v \in BinaryOps THEN 2
       ELSE IF v \in BinaryConstOps \cup {"AssertZero", "AssertConst", "B2A"} THEN 1
       ELSE 0

OutArity(g) ==
    IF Inner(g)[1] \in {"AssertZero", "AssertConst", "SizeHint"} THEN 0 ELSE 1

(* C3: identity translation law: for every Operation<T> gate g and every
   CombineOperation g of kind GF2, Z64 or B2A, g.translate(g.inputs(),
   g.outputs()) returns Some(g') with g' equal to g. *)
C3_IdentityTranslation ==
    (call[1] = "translate_self" /\ gate[1] # "SizeHint") => ret = Some(gate)

C3_Witness ==
    /\ call[1] = "translate_self"
    /\ gate = <<"Z64", <<"Sub", 0, 1, UsizeMax>>>>
    /\ ret = Some(gate)

(* The gate that has g's variant and constant, wout's first element as its
   output wire and win's first elements, in order, as its operands. *)
Rewired(g, win, wout) ==
    LET v == g[1]
    IN CASE v \in InputOps -> <<v, wout[1]>>
         [] v \in BinaryOps -> <<v, wout[1], win[1], win[2]>>
         [] v \in BinaryConstOps -> <<v, wout[1], win[1], g[4]>>
         [] v = "AssertZero" -> <<v, win[1]>>
         [] v = "AssertConst" -> <<v, win[1], g[3]>>
         [] v = "Const" -> <<v, wout[1], g[3]>>
         [] v = "B2A" -> <<v, wout[1], win[1]>>
         [] v \in Wrappers ->
               LET w == g[2][1]
               IN <<v, CASE w \in InputOps -> <<w, wout[1]>>
                         [] w \in BinaryOps -> <<w, wout[1], win[1], win[2]>>
                         [] w \in BinaryConstOps -> <<w, wout[1], win[1], g[2][4]>>
                         [] w = "AssertZero" -> <<w, win[1]>>
                         [] w = "AssertConst" -> <<w, win[1], g[2][3]>>
                         [] w = "Const" -> <<w, wout[1], g[2][3]>> >>

(* C4: translate(win, wout) on a translatable gate, given sequences that hold
   the wires its variant needs, returns a gate of the same variant with the
   same embedded constant, whose output wire is the first element of wout
   and whose input wires are the first elements of win in order; the wires
   the gate currently has do not influence the result. *)
C4_TranslateRewires ==
    (/\ call[1] = "translate"
     /\ gate[1] # "SizeHint"
     /\ Len(call[2]) >= InArity(gate)
     /\ Len(call[3]) >= OutArity(gate))
    => /\ ret = Some(Rewired(gate, call[2], call[3]))
       /\ gate[1] # "B2A" =>
             /\ inputs(ret[2]) = SubSeq(call[2], 1, InArity(gate))
             /\ outputs(ret[2]) = SubSeq(call[3], 1, OutArity(gate))

C4_Witness ==
    /\ call[1] = "translate"
    /\ dom = "u8"
    /\ gate = <<"MulConst", 0, 1, 255>>
    /\ call[2] = <<UsizeMax, 2>>
    /\ call[3] = <<2>>
    /\ ret = Some(<<"MulConst", 2, UsizeMax, 255>>)

(* The mapper "M[w] if w is a key of M, else w". *)
TableMapper(M) == [w \in Usize |-> IF w \in DOMAIN M THEN M[w] ELSE w]

(* C5: translating a gate through mappers (f_in, f_out) and then through
   identity mappers gives the gate the first translation gave; and
   translate_from_hashmap with table M agrees, for every gate and table,
   with translate_from_fn using for inputs and outputs the mapper
   "M[w] if w is a key of M, else w". *)
C5_MapperLaws ==
    /\ (/\ call[1] = "translate_from_fn"
        /\ call[2] = "id"
        /\ call[3] = "id"
        /\ call[4] >= 1) => ret = Some(gate)
    /\ call[1] = "translate_from_hashmap" =>
          ret = translate_from_fn(gate, TableMapper(call[2]), TableMapper(call[2]))

C5_Witness ==
    /\ call[1] = "translate_from_hashmap"
    /\ gate = <<"Add", 0, 1, UsizeMax>>
    /\ DOMAIN call[2] = {1}
    /\ ret = Some(<<"Add", 0, 2, UsizeMax>>)

C5_WitnessComposed ==
    /\ call = <<"translate_from_fn", "id", "id", 1>>
    /\ gate = <<"Add", 0, 2, 0>>
    /\ ret = Some(gate)

(* C6: for every SizeHint(a, b) and every pair of input/output wire
   sequences, the empty ones included, translate returns None and does not
   panic; the same holds of translate_from_hashmap and translate_from_fn. *)
C6_SizeHintNotTranslatable ==
    (gate[1] = "SizeHint" /\ call[1] \in Translations) => ret = None

C6_Witness ==
    /\ gate[1] = "SizeHint"
    /\ call[1] = "translate"
    /\ call[2] = <<>>
    /\ call[3] = <<>>
    /\ ret = None

(* C7: every gate has the fixed I/O arity of its variant, whatever the value
   type: Input, Random and Const yield no input and the output [dst]; Add,
   Sub and Mul yield the inputs [a, b] and the output [dst]; AddConst,
   SubConst and MulConst yield the input [src] and the output [dst]; the
   assertion gate yields the input [src] and no output; SizeHint yields
   neither; a GF2/Z64 CombineOperation yields the sequences of the
   Operation it wraps. *)
C7_FixedArity ==
    LET g == Inner(gate)
        v == g[1]
    IN /\ (call[1] = "inputs" /\ v # "B2A") =>
             ret = CASE v \in InputOps \cup {"Const", "SizeHint"} -> <<>>
                     [] v \in BinaryOps -> <<g[3], g[4]>>
                     [] v \in BinaryConstOps -> <<g[3]>>
                     [] v \in {"AssertZero", "AssertConst"} -> <<g[2]>>
       /\ (call[1] = "outputs" /\ v # "B2A") =>
             ret = CASE v \in InputOps \cup BinaryOps \cup BinaryConstOps \cup {"Const"} ->
                          <<g[2]>>
                     [] v \in {"AssertZero", "AssertConst", "SizeHint"} -> <<>>

C7_Witness ==
    /\ call[1] = "inputs"
    /\ gate = <<"GF2", <<"Mul", UsizeMax, 1, 0>>>>
    /\ ret = <<1, 0>>

(* C8 as stated: for any dst and any low, every value of the wire-id type
   included, B2A(dst, low).inputs() yields exactly the 64 ids low, low + 1,
   ..., low + 63 in ascending order and .outputs() yields exactly [dst]. *)
C8_B2AInputsAnyLow ==
    gate[1] = "B2A" =>
       /\ call[1] = "inputs" => ret = [i \in 1..B2AWidth |-> gate[3] + (i - 1)]
       /\ call[1] = "outputs" => ret = <<gate[2]>>

(* C8 amended: for any dst and any low of at most usize::MAX - 63,
   B2A(dst, low).inputs() yields exactly the 64 ids low, ..., low + 63 in
   ascending order; .outputs() yields exactly [dst] for any low. *)
C8_B2AInputs ==
    gate[1] = "B2A" =>
       /\ (call[1] = "inputs" /\ gate[3] + (B2AWidth - 1) <= UsizeMax) =>
             ret = [i \in 1..B2AWidth |-> gate[3] + (i - 1)]
       /\ call[1] = "outputs" => ret = <<gate[2]>>

C8_Witness ==
    /\ gate = <<"B2A", 1, UsizeMax - (B2AWidth - 1)>>
    /\ call[1] = "inputs"
    /\ Len(ret) = B2AWidth
    /\ ret[B2AWidth] = UsizeMax

(* The zero and the one of a value type. *)
Zero(T) == IF T = "bool" THEN FALSE ELSE 0

One(T) == IF T = "bool" THEN TRUE ELSE 1

IsNoOp(T, op) ==
    \/ op[1] \in {"AddConst", "SubConst"} /\ op[4] = Zero(T)
    \/ op[1] = "MulConst" /\ op[4] = One(T)

(* C9: in every domain is_identity(g) is true iff g is AddConst or SubConst
   with the domain's zero or MulConst with the domain's one; for a
   CombineOperation under Identity<D> it is true only for the domain-D
   wrapper of such a gate; identity(w_out, w_in) builds
   AddConst(w_out, w_in, zero), which satisfies is_identity. *)
C9_Identity ==
    /\ (call[1] = "is_identity" /\ dom # "combine") => (ret <=> IsNoOp(dom, gate))
    /\ (call[1] = "is_identity" /\ dom = "combine") =>
          (ret <=> (gate[1] = WrapperOf(call[2]) /\ IsNoOp(call[2], gate[2])))
    /\ (call[1] = "identity" /\ dom # "combine") =>
          /\ ret = Some(<<"AddConst", call[3], call[4], Zero(call[2])>>)
          /\ is_identity(call[2], ret[2])
    /\ (call[1] = "identity" /\ dom = "combine") =>
          /\ ret = Some(<<WrapperOf(call[2]), <<"AddConst", call[3], call[4], Zero(call[2])>>>>)
          /\ is_identity_combine(call[2], ret[2])

C9_Witness ==
    /\ call[1] = "is_identity"
    /\ call[2] = "U256"
    /\ gate = <<"Z256", <<"MulConst", 0, 1, 1>>>>
    /\ ret = TRUE

(***************************************************************************)
(* Strings.  A string that names a wire is the triple <<NoContext, text,   *)
(* idx>>: "text[idx]" in full and "text" when idx is NoIdx, text being the *)
(* characters before the bracket.  A qualified name "ctx::base[idx]" has   *)
(* the text "ctx::base" (format_wire_id).  Two triples are equal exactly   *)
(* when the strings are.                                                   *)
(***************************************************************************)
NoIdx == 0 - 1

NoContext == "(unqualified)"

Str(s) == <<NoContext, s, NoIdx>>

(***************************************************************************)
(* WireHasher.  hashes maps the hash of a name to its id; reverse, kept by *)
(* the debug build only, holds the names in id order.                      *)
(***************************************************************************)
(* DefaultHasher over the name, taken as usize.  The value is left
   uninterpreted; distinct names have distinct hashes. *)
Hash(name) == <<"siphash", name>>

WireHasher_new == [hashes |-> <<>>, reverse |-> <<>>]

(* HashMap::len *)
MapLen(m) == Cardinality(DOMAIN m)

(* HashMap::insert of a key that may be present *)
MapInsert(m, k, v) == [x \in DOMAIN m \cup {k} |-> IF x = k THEN v ELSE m[x]]

(* A plausible slip: the id counted after the insertion. *)
get_wire_idOneBased(h, name) ==
    LET len == MapLen(h.hashes)
        hash == Hash(name)
    IN IF hash \in DOMAIN h.hashes
       THEN [hasher |-> h, id |-> h.hashes[hash], panic |-> None]
       ELSE [hasher |-> [hashes |-> MapInsert(h.hashes, hash, len + 1),
                         reverse |-> IF debug_assertions THEN Append(h.reverse, name)
                                     ELSE h.reverse],
             id |-> len + 1, panic |-> None]

(* A plausible slip: the occupied entry overwritten with a fresh id. *)
get_wire_idOverwriting(h, name) ==
    LET len == MapLen(h.hashes)
    IN [hasher |-> [hashes |-> MapInsert(h.hashes, Hash(name), len),
                    reverse |-> h.reverse],
        id |-> len, panic |-> None]

(* get_wire_id: the hasher after the call, the id returned, and the panic of
   the debug build's assert_eq!(self.reverse.len(), len + 1) if it fails. *)
get_wire_id(h, name) ==
    LET len == MapLen(h.hashes)
        hash == Hash(name)
    IN IF hash \in DOMAIN h.hashes
       THEN [hasher |-> h, id |-> h.hashes[hash], panic |-> None]
       ELSE IF debug_assertions
       THEN LET reverse == Append(h.reverse, name)
            IN [hasher |-> [hashes |-> MapInsert(h.hashes, hash, len),
                            reverse |-> reverse],
                id |-> len,
                panic |-> IF Len(reverse) = len + 1 THEN None
                          ELSE Panic("assert_eq!(self.reverse.len(), len + 1) failed")]
       ELSE [hasher |-> [hashes |-> MapInsert(h.hashes, hash, len),
                         reverse |-> h.reverse],
             id |-> len, panic |-> None]

(* backref: the name behind an id, in the debug build only. *)
backref(h, id) ==
    IF debug_assertions /\ id + 1 \in 1..Len(h.reverse)
    THEN Some(h.reverse[id + 1])
    ELSE None

(***************************************************************************)
(* SpecHasher: a WireHasher::default() receiving get_wire_id calls.        *)
(***************************************************************************)
NameSamples == {Str("$false"), Str("$true"), Str("foo"), <<NoContext, "m::x", 0>>}

MaxCalls == 5

InitOthersOfHasher ==
    /\ gate = <<"Input", 0>>
    /\ dom = "bool"
    /\ call = <<"new", 0>>
    /\ ret = None
    /\ reader = None
    /\ parsed = FALSE
    /\ circuit = <<>>
    /\ fatal = None
    /\ log = <<>>
    /\ InitOthersOfEval

InitHasher ==
    /\ debug_assertions \in BOOLEAN
    /\ hasher = WireHasher_new
    /\ queried = <<>>
    /\ returned = <<>>
    /\ InitOthersOfHasher

GetWireId ==
    /\ Len(queried) < MaxCalls
    /\ fatal = None
    /\ \E name \in NameSamples :
          LET r == get_wire_id(hasher, name)
          IN /\ hasher' = r.hasher
             /\ fatal' = r.panic
             /\ queried' = Append(queried, name)
             /\ returned' = Append(returned, r.id)
    /\ UNCHANGED <<gateVars, debug_assertions, reader, parsed, circuit, log,
                 evalVars>>

(* backref of the id the last call returned *)
Backref ==
    /\ fatal = None
    /\ returned # <<>>
    /\ ret = None
    /\ ret' = backref(hasher, returned[Len(returned)])
    /\ UNCHANGED <<gate, dom, call, debug_assertions, hasher, hasherVars, parserVars,
                 evalVars>>

NextHasher ==
    \/ GetWireId
    \/ Backref

SpecHasher == InitHasher /\ [][NextHasher]_vars

(***************************************************************************)
(* Properties of the WireHasher (SpecHasher).                              *)
(***************************************************************************)
(* The distinct names among the first k queries. *)
SeenBefore(k) == {queried[j] : j \in 1..(k - 1)}

(* C1: the ids of a WireHasher are dense and in first-seen order: a call
   with a name not seen before returns the number of distinct names seen
   before it, a call with a name seen before returns the id that name got,
   and after n distinct names the ids handed out are exactly 0..n-1. *)
C1_DenseFirstSeen ==
    /\ Len(returned) = Len(queried)
    /\ \A i \in 1..Len(queried) :
          IF queried[i] \in SeenBefore(i)
          THEN \E j \in 1..(i - 1) : queried[j] = queried[i] /\ returned[i] = returned[j]
          ELSE returned[i] = Cardinality(SeenBefore(i))
    /\ {returned[i] : i \in 1..Len(returned)}
          = 0..(Cardinality(SeenBefore(Len(queried) + 1)) - 1)
    /\ fatal = None

(* Three distinct names interned, then the first one asked for again. *)
C1_Witness ==
    /\ Len(queried) = 4
    /\ Cardinality(SeenBefore(4)) = 3
    /\ queried[4] = queried[1]
    /\ returned = <<0, 1, 2, 0>>

(***************************************************************************)
(* BLIF text.  A file is the sequence of its lines, a line the sequence of *)
(* its space-separated tokens: the directive first (a string), then        *)
(*   a module or mnemonic name        a string,                            *)
(*   a wire token "base[idx]"         the triple Wire(base, idx),          *)
(*   a pin token "lhs=rhs"            the pair <<lhs, rhs>> of wire        *)
(*                                    tokens, <<lhs>> when it has no '=',  *)
(*   an attribute value               the sequence of its characters.      *)
(* Tokens with an unclosed bracket or a non-numeric index are not part of  *)
(* the model.                                                              *)
(***************************************************************************)
Wire(base, idx) == <<NoContext, base, idx>>

UnwrapNone == Panic("called Option::unwrap() on a None value")

(* The proper-prefix pairs among the base names the model's files use. *)
ProperPrefixes == {<<"x", "xy">>}

(* str::starts_with for a wire token and a bracket-free start token. *)
starts_with(token, start) == token[2] = start \/ <<start, token[2]>> \in ProperPrefixes

(* parse_split: the two sides of "lhs=rhs". *)
parse_split(pair) ==
    IF Len(pair) < 2 THEN UnwrapNone ELSE <<pair[1], pair[2]>>

(* The first panic of parse_split over the pins, None if there is none. *)
FirstSplitPanic(pins) ==
    IF \E i \in 1..Len(pins) : IsPanic(parse_split(pins[i])) THEN UnwrapNone ELSE None

(* parse_gate: `line` is the line after its directive. *)
parse_gate(line) ==
    IF Len(line) < 2 THEN [panic |-> UnwrapNone]
    ELSE LET last == parse_split(line[Len(line)])
             pins == SubSeq(line, 2, Len(line) - 1)
         IN IF IsPanic(last) THEN [panic |-> last]
            ELSE IF FirstSplitPanic(pins) # None THEN [panic |-> UnwrapNone]
            ELSE [panic |-> None, op |-> line[1], out |-> last[2],
                  inputs |-> [i \in 1..Len(pins) |-> parse_split(pins[i])[2]]]

(* The length of the chunk parse_io takes from the front of `line`. *)
RECURSIVE ChunkLen(_, _, _)
ChunkLen(line, start, k) ==
    IF k < Len(line) /\ starts_with(line[k + 1], start)
    THEN ChunkLen(line, start, k + 1)
    ELSE k

(* parse_io: the chunks of consecutive tokens that start with the text the
   chunk's first token has before its bracket. *)
RECURSIVE parse_io(_)
parse_io(line) ==
    IF line = <<>> THEN <<>>
    ELSE LET n == ChunkLen(line, line[1][2], 0)
         IN <<SubSeq(line, 1, n)>> \o parse_io(SubSeq(line, n + 1, Len(line)))

(* parse_subcircuit *)
parse_subcircuit(line) ==
    IF line = <<>> THEN [panic |-> UnwrapNone]
    ELSE LET pins == Tail(line)
         IN IF FirstSplitPanic(pins) # None THEN [panic |-> UnwrapNone]
            ELSE [panic |-> None, name |-> line[1],
                  io |-> [i \in 1..Len(pins) |-> parse_split(pins[i])]]

(* get_base_name_and_width: the text before the bracket and the index in
   it, 0 without a bracket. *)
get_base_name_and_width(unparsed) ==
    [base_name |-> <<unparsed[1], unparsed[2], NoIdx>>,
     idx |-> IF unparsed[3] = NoIdx THEN 0 ELSE unparsed[3]]

(* format!("{}[{}]", base_name, n) *)
Indexed(base_name, n) == <<base_name[1], base_name[2], n>>

(* format_wire_id: format!("{}::{}", context, id), the two literals left
   alone.  The text before the bracket is joined as text, so that what the
   join makes of a context or a name that itself holds "::" is what the
   code makes of it. *)
format_wire_id(context, id) ==
    IF id = Str("$true") \/ id = Str("$false") THEN id
    ELSE <<id[1], context \o "::" \o id[2], id[3]>>

Reverse(s) == [i \in 1..Len(s) |-> s[Len(s) + 1 - i]]

RECURSIVE Flatten(_)
Flatten(ss) == IF ss = <<>> THEN <<>> ELSE ss[1] \o Flatten(Tail(ss))

(***************************************************************************)
(* CanConstructVariant for BlifParser<bool> and BlifParser<u64>.           *)
(***************************************************************************)
Unsupported == Panic("not implemented: Unsupported gate type")

ParserDomains == {"bool", "u64"}

construct_variant_bool(op, out, inputs_, cons) ==
    CASE op \in {"AND", "MUL"} -> construct(<<"BinaryOp", "Mul">>, inputs_, <<out>>, None)
      [] op \in {"XOR", "ADD"} -> construct(<<"BinaryOp", "Add">>, inputs_, <<out>>, None)
      [] op \in {"NOT", "INV"} ->
            construct(<<"BinaryConstOp", "AddConst">>, inputs_, <<out>>, Some(TRUE))
      [] op = "BUF" ->
            construct(<<"BinaryConstOp", "AddConst">>, inputs_, <<out>>, Some(FALSE))
      [] op = "RAND" -> construct(<<"InputOp", "Random">>, inputs_, <<out>>, None)
      [] op = "CONST" -> construct(<<"InputConstOp", "Const">>, inputs_, <<out>>, cons)
      [] OTHER -> Unsupported

construct_variant_u64(op, out, inputs_, cons) ==
    CASE op = "MUL" -> construct(<<"BinaryOp", "Mul">>, inputs_, <<out>>, None)
      [] op = "MULC" -> construct(<<"BinaryConstOp", "MulConst">>, inputs_, <<out>>, cons)
      [] op = "ADD" -> construct(<<"BinaryOp", "Add">>, inputs_, <<out>>, None)
      [] op = "ADDC" -> construct(<<"BinaryConstOp", "AddConst">>, inputs_, <<out>>, cons)
      [] op = "SUB" -> construct(<<"BinaryOp", "Sub">>, inputs_, <<out>>, None)
      [] op = "SUBC" -> construct(<<"BinaryConstOp", "SubConst">>, inputs_, <<out>>, cons)
      [] op = "BUF" ->
            construct(<<"BinaryConstOp", "AddConst">>, inputs_, <<out>>, Some(0))
      [] op = "RAND" -> construct(<<"InputOp", "Random">>, inputs_, <<out>>, None)
      [] op = "CONST" -> construct(<<"InputConstOp", "Const">>, inputs_, <<out>>, cons)
      [] OTHER -> Unsupported

construct_variant(T, op, out, inputs_, cons) ==
    IF T = "bool" THEN construct_variant_bool(op, out, inputs_, cons)
    ELSE construct_variant_u64(op, out, inputs_, cons)

(* constant_from_str for the two strings the parser passes; any other
   string goes to str::parse, which the parser never reaches. *)
constant_from_str(T, s) ==
    CASE s = Str("$false") -> IF T = "bool" THEN FALSE ELSE 0
      [] s = Str("$true") -> IF T = "bool" THEN TRUE ELSE 1

(* The two gates pushed at the start of every module: Const(0, false) and
   Const(1, true). *)
ReservedGates(T) ==
    <<construct_variant(T, "CONST", 0, <<>>, Some(constant_from_str(T, Str("$false")))),
      construct_variant(T, "CONST", 1, <<>>, Some(constant_from_str(T, Str("$true"))))>>

(***************************************************************************)
(* Descriptors.  A HashMap is a function; <<>> is the empty one.           *)
(***************************************************************************)
PackedBlifCircuitDesc_default ==
    [name |-> "", inputs |-> <<>>, outputs |-> <<>>, gates |-> <<>>,
     subcircuits |-> <<>>, packed_wires |-> <<>>]

PackedSubcircuitDesc_default == [name |-> "", connections |-> <<>>, packed_wires |-> <<>>]

(***************************************************************************)
(* Only({e(x) : x \in {v}}) is e(v) with v evaluated once, the way a `let` *)
(* binding evaluates its right-hand side once.                             *)
(***************************************************************************)
Only(S) == CHOOSE x \in S : TRUE

(***************************************************************************)
(* Interning.  An interning state carries the hasher, the ids returned so  *)
(* far and the panic that stopped it, if any.                              *)
(***************************************************************************)
Interning(h) == [hasher |-> h, ids |-> <<>>, panic |-> None]

Intern(st0, name) ==
    Only({IF st.panic # None THEN st
          ELSE Only({[hasher |-> r.hasher, ids |-> Append(st.ids, r.id),
                      panic |-> r.panic] :
                     r \in {get_wire_id(st.hasher, name)}}) :
          st \in {st0}})

RECURSIVE InternAll(_, _)
InternAll(st, names) ==
    IF names = <<>> THEN st ELSE InternAll(Intern(st, names[1]), Tail(names))

(***************************************************************************)
(* PackedBlifCircuitDesc::add_subcircuit.                                  *)
(***************************************************************************)
(* The names add_subcircuit interns for one packed connection of `width`
   bits: parent bit and child bit by turns, from bit 0 up. *)
PackedNames(parent, sub, width) ==
    LET bp == get_base_name_and_width(parent)
        bs == get_base_name_and_width(sub)
    IN Flatten([i \in 1..width |->
                   <<Indexed(bp.base_name, (bp.idx * width) + (i - 1)),
                     Indexed(bs.base_name, (bs.idx * width) + (i - 1))>>])

(* The first gate that touches the wire, as the panic it raises. *)
GateOnPackedWire(gates, parent_id) ==
    LET drives(k) == \E w \in 1..Len(outputs(gates[k])) : outputs(gates[k])[w] = parent_id
        reads(k) == \E w \in 1..Len(inputs(gates[k])) : inputs(gates[k])[w] = parent_id
        hits == {k \in 1..Len(gates) : drives(k) \/ reads(k)}
    IN IF hits = {} THEN None
       ELSE IF drives(CHOOSE x \in hits : \A y \in hits : x <= y)
       THEN Panic("Tried to drive the packed wire via an unpacked gate")
       ELSE Panic("Tried to drive an unpacked gate via packed wire")

(* A plausible slip: the packed arm recording the newest width of a parent
   wire instead of comparing it with the recorded one. *)
AddPackedConnectionLenient(acc, width, parent, sub) ==
    LET base_name_parent == get_base_name_and_width(parent).base_name
        self == [acc.self EXCEPT !.packed_wires = MapInsert(@, base_name_parent, width)]
    IN Only({
         LET connections ==
                acc.connections
                \o [i \in 1..width |-> <<bits.ids[2 * i - 1], bits.ids[2 * i]>>]
         IN IF bits.panic # None
            THEN [self |-> self, connections |-> connections, hasher |-> bits.hasher,
                  panic |-> bits.panic]
            ELSE Only({[self |-> self, connections |-> connections, hasher |-> st.hasher,
                        panic |-> IF st.panic # None THEN st.panic
                                  ELSE GateOnPackedWire(acc.self.gates,
                                                        st.ids[Len(st.ids)])] :
                       st \in {Intern(bits, parent)}}) :
         bits \in {InternAll(Interning(acc.hasher), PackedNames(parent, sub, width))}})

(* The packed arm of the loop over the connections. *)
AddPackedConnection(acc, width, parent, sub) ==
    LET base_name_parent == get_base_name_and_width(parent).base_name
        known == base_name_parent \in DOMAIN acc.self.packed_wires
        mismatch == known /\ acc.self.packed_wires[base_name_parent] # width
        self == IF known THEN acc.self
                ELSE [acc.self EXCEPT !.packed_wires = MapInsert(@, base_name_parent, width)]
    IN Only({
         LET connections ==
                acc.connections
                \o [i \in 1..width |-> <<bits.ids[2 * i - 1], bits.ids[2 * i]>>]
         IN IF bits.panic # None \/ mismatch
            THEN [self |-> self, connections |-> connections, hasher |-> bits.hasher,
                  panic |-> IF bits.panic # None THEN bits.panic
                            ELSE Panic("packed wire was supposed to be of another width")]
            ELSE Only({[self |-> self, connections |-> connections, hasher |-> st.hasher,
                        panic |-> IF st.panic # None THEN st.panic
                                  ELSE GateOnPackedWire(acc.self.gates,
                                                        st.ids[Len(st.ids)])] :
                       st \in {Intern(bits, parent)}}) :
         bits \in {InternAll(Interning(acc.hasher), PackedNames(parent, sub, width))}})

(* One turn of the loop over the connections.  acc holds the module, the
   connections unpacked so far, the hasher and the panic. *)
AddConnection(acc0, packed_wires, parent, sub) ==
    LET base_name_sub == get_base_name_and_width(sub).base_name
    IN Only({IF acc.panic # None THEN acc
             ELSE IF base_name_sub \in DOMAIN packed_wires
             THEN AddPackedConnection(acc, packed_wires[base_name_sub], parent, sub)
             ELSE Only({[self |-> acc.self,
                         connections |-> Append(acc.connections, <<st.ids[1], st.ids[2]>>),
                         hasher |-> st.hasher,
                         panic |-> st.panic] :
                        st \in {InternAll(Interning(acc.hasher), <<parent, sub>>)}}) :
             acc \in {acc0}})

RECURSIVE AddConnections(_, _, _)
AddConnections(acc, packed_wires, conns) ==
    IF conns = <<>> THEN acc
    ELSE AddConnections(AddConnection(acc, packed_wires, conns[1][1], conns[1][2]),
                        packed_wires, Tail(conns))

(* add_subcircuit: the module with the unpacked subcircuit pushed, the
   hasher after it, and the panic if it raised one. *)
add_subcircuit(self, packed_sub, h) ==
    Only({[self |-> [acc.self EXCEPT !.subcircuits =
                        Append(@, [name |-> packed_sub.name,
                                   connections |-> acc.connections])],
           hasher |-> acc.hasher,
           panic |-> acc.panic] :
          acc \in {AddConnections([self |-> self, connections |-> <<>>, hasher |-> h,
                                   panic |-> None],
                                  packed_sub.packed_wires, packed_sub.connections)}})

(***************************************************************************)
(* From<(PackedBlifCircuitDesc, &mut WireHasher)> for BlifCircuitDesc.     *)
(***************************************************************************)
(* A plausible slip: the bits of a packed I/O wire taken from the lowest
   up. *)
UnpackedNamesAscending(name, packed_wires) ==
    LET b == get_base_name_and_width(name)
    IN IF b.base_name \in DOMAIN packed_wires
       THEN LET width == packed_wires[b.base_name]
            IN [i \in 1..width |-> Indexed(b.base_name, (b.idx * width) + (i - 1))]
       ELSE <<name>>

(* The names one I/O wire stands for: itself, or the bits of its packed
   wire from the highest down. *)
UnpackedNames(name, packed_wires) ==
    LET b == get_base_name_and_width(name)
    IN IF b.base_name \in DOMAIN packed_wires
       THEN LET width == packed_wires[b.base_name]
            IN [i \in 1..width |-> Indexed(b.base_name, (b.idx * width) + (width - i))]
       ELSE <<name>>

UnpackedIO(names, packed_wires) ==
    Flatten([k \in 1..Len(names) |-> UnpackedNames(names[k], packed_wires)])

(* The conversion: the descriptor, the hasher after it and the panic. *)
BlifCircuitDesc_from(other, h) ==
    Only({Only({[desc |-> [name |-> other.name, inputs |-> ins.ids,
                           outputs |-> outs.ids, gates |-> other.gates,
                           subcircuits |-> other.subcircuits],
                 hasher |-> outs.hasher,
                 panic |-> outs.panic] :
                outs \in {InternAll([ins EXCEPT !.ids = <<>>],
                                    UnpackedIO(other.outputs, other.packed_wires))}}) :
          ins \in {InternAll(Interning(h), UnpackedIO(other.inputs, other.packed_wires))}})

(***************************************************************************)
(* BlifParser::clean_parse, one directive at a time.  The parse state ps   *)
(* holds the parser's hasher and circuit queue, the locals `current` and   *)
(* `current_subcircuit`, and the panic that ended the parse, if any.       *)
(* `line` is the line after its directive.                                 *)
(***************************************************************************)
Died(ps, p) == [ps EXCEPT !.panic = p]

(* .model *)
ParseModel(ps, line) ==
    IF line = <<>> THEN Died(ps, UnwrapNone)
    ELSE [ps EXCEPT !.current.name = line[1]]

(* A plausible slip: the chunks of parse_io recorded without the reversal. *)
IONamesInOrder(context, line) ==
    Only({[k \in 1..Len(names) |-> format_wire_id(context, names[k])] :
          names \in {Flatten(parse_io(line))}})

(* The names an .inputs or .outputs line adds: each chunk of parse_io
   reversed, every name qualified. *)
IONames(context, line) ==
    Only({[k \in 1..Len(names) |-> format_wire_id(context, names[k])] :
          names \in {Only({Flatten([k \in 1..Len(chunks) |-> Reverse(chunks[k])]) :
                           chunks \in {parse_io(line)}})}})

(* .inputs *)
ParseInputs(ps, line) ==
    [ps EXCEPT !.current.inputs = @ \o IONames(ps.current.name, line)]

(* .outputs *)
ParseOutputs(ps, line) ==
    [ps EXCEPT !.current.outputs = @ \o IONames(ps.current.name, line)]

(* The qualified names of a gate's wires, the output first. *)
GateNames(context, g) ==
    <<format_wire_id(context, g.out)>>
    \o [k \in 1..Len(g.inputs) |-> format_wire_id(context, g.inputs[k])]

(* The parse state after the gate construct_variant built, or its panic. *)
PushGate(ps, h, built) ==
    IF IsPanic(built) THEN Died([ps EXCEPT !.hasher = h], built)
    ELSE [ps EXCEPT !.hasher = h, !.current.gates = Append(@, built)]

(* .gate: the output wire is interned first, then the inputs in line
   order; construct_variant gets no constant. *)
ParseGate(T, ps, line) ==
    Only({IF g.panic # None THEN Died(ps, g.panic)
          ELSE Only({IF st.panic # None
                     THEN Died([ps EXCEPT !.hasher = st.hasher], st.panic)
                     ELSE PushGate(ps, st.hasher,
                                   construct_variant(T, g.op, st.ids[1], Tail(st.ids),
                                                     None)) :
                     st \in {InternAll(Interning(ps.hasher),
                                       GateNames(ps.current.name, g))}}) :
          g \in {parse_gate(line)}})

(* Pushes the pending subcircuit, if any, into the current module. *)
FlushSubcircuit(ps) ==
    IF IsSome(ps.current_subcircuit)
    THEN Only({[ps EXCEPT !.current = a.self, !.hasher = a.hasher,
                          !.current_subcircuit = None, !.panic = a.panic] :
               a \in {add_subcircuit(ps.current, ps.current_subcircuit[2], ps.hasher)}})
    ELSE ps

(* The pending subcircuit a .subckt line opens in the module `context`. *)
OpenedSubcircuit(context, sub) ==
    [name |-> sub.name,
     connections |-> [k \in 1..Len(sub.io) |->
                        <<format_wire_id(context, sub.io[k][2]),
                          format_wire_id(sub.name, sub.io[k][1])>>],
     packed_wires |-> <<>>]

(* .subckt *)
ParseSubckt(ps, line) ==
    Only({IF flushed.panic # None THEN flushed
          ELSE Only({IF sub.panic # None THEN Died(flushed, sub.panic)
                     ELSE [flushed EXCEPT !.current_subcircuit =
                              Some(OpenedSubcircuit(flushed.current.name, sub))] :
                     sub \in {parse_subcircuit(line)}}) :
          flushed \in {FlushSubcircuit(ps)}})

(* usize::from_str_radix(value, 2): an optional '+', then binary digits. *)
RECURSIVE BinaryValue(_)
BinaryValue(digits) ==
    IF digits = <<>> THEN 0
    ELSE 2 * BinaryValue(SubSeq(digits, 1, Len(digits) - 1))
         + (IF digits[Len(digits)] = "1" THEN 1 ELSE 0)

from_str_radix2(value) ==
    LET digits == IF value # <<>> /\ value[1] = "+" THEN Tail(value) ELSE value
    IN IF digits # <<>> /\ \A k \in 1..Len(digits) : digits[k] \in {"0", "1"}
       THEN Some(BinaryValue(digits))
       ELSE None

Gf2Packing == <<"\"", "g", "f", "2", "\"">>

(* .attr *)
ParseAttr(ps, line) ==
    IF Len(line) < 2 THEN Died(ps, UnwrapNone)
    ELSE LET name == line[1]
             value == line[2]
             width == from_str_radix2(value)
         IN CASE name \in {Str("module_not_derived"), Str("src")} -> ps
              [] name = Str("_packing") ->
                    IF value = Gf2Packing THEN ps
                    ELSE Died(ps, Panic("not implemented: Unknown field"))
              [] OTHER ->
                    IF ~IsSome(width)
                    THEN Died(ps, Panic("called Result::unwrap() on an Err value"))
                    ELSE IF IsSome(ps.current_subcircuit)
                    THEN [ps EXCEPT !.current_subcircuit[2].packed_wires =
                             MapInsert(@, format_wire_id(ps.current_subcircuit[2].name, name),
                                       width[2])]
                    ELSE ps

(* .names and .conn: a BUF from the first token to the last. *)
ParseNames(T, ps, line) ==
    IF line = <<>> THEN Died(ps, UnwrapNone)
    ELSE Only({IF from.panic # None \/ Len(line) < 2
               THEN Died([ps EXCEPT !.hasher = from.hasher],
                         IF from.panic # None THEN from.panic ELSE UnwrapNone)
               ELSE Only({IF to.panic # None
                          THEN Died([ps EXCEPT !.hasher = to.hasher], to.panic)
                          ELSE PushGate(ps, to.hasher,
                                        construct_variant(T, "BUF", to.ids[2],
                                                          <<to.ids[1]>>, None)) :
                          to \in {Intern(from, format_wire_id(ps.current.name,
                                                              line[Len(line)]))}}) :
               from \in {Intern(Interning(ps.hasher),
                                format_wire_id(ps.current.name, line[1]))}})

(* A plausible slip: the fresh module left without the reserved gates. *)
SeededModuleBare(T) == PackedBlifCircuitDesc_default

(* A fresh module holding the two reserved gates. *)
SeededModule(T) == [PackedBlifCircuitDesc_default EXCEPT !.gates = ReservedGates(T)]

(* .end *)
ParseEnd(T, ps) ==
    Only({IF flushed.panic # None THEN flushed
          ELSE IF flushed.current.gates = <<>> /\ flushed.current.subcircuits = <<>>
          THEN [flushed EXCEPT !.current = SeededModule(T)]
          ELSE Only({[flushed EXCEPT !.circuit = Append(@, made.desc),
                                     !.hasher = made.hasher,
                                     !.current = SeededModule(T),
                                     !.panic = made.panic] :
                     made \in {BlifCircuitDesc_from(flushed.current, flushed.hasher)}}) :
          flushed \in {FlushSubcircuit(ps)}})

(* The body of the loop over the lines; a line is never empty, its first
   token is the directive. *)
ParseLine(T, ps, line) ==
    LET cmd == line[1]
        rest == Tail(line)
    IN CASE cmd = ".model" -> ParseModel(ps, rest)
         [] cmd = ".inputs" -> ParseInputs(ps, rest)
         [] cmd = ".outputs" -> ParseOutputs(ps, rest)
         [] cmd = ".gate" -> ParseGate(T, ps, rest)
         [] cmd = ".subckt" -> ParseSubckt(ps, rest)
         [] cmd = ".attr" -> ParseAttr(ps, rest)
         [] cmd \in {".names", ".conn"} -> ParseNames(T, ps, rest)
         [] cmd = ".end" -> ParseEnd(T, ps)
         [] OTHER -> ps

(* A plausible slip: the module still open when the lines run out is closed
   as if by an .end. *)
RECURSIVE ParseLinesClosing(_, _, _)
ParseLinesClosing(T, ps0, lines) ==
    Only({IF ps.panic # None THEN ps
          ELSE IF lines = <<>>
          THEN (IF ps.current = SeededModule(T) THEN ps ELSE ParseEnd(T, ps))
          ELSE ParseLinesClosing(T, ParseLine(T, ps, lines[1]), Tail(lines)) :
          ps \in {ps0}})

RECURSIVE ParseLines(_, _, _)
ParseLines(T, ps0, lines) ==
    Only({IF lines = <<>> \/ ps.panic # None THEN ps
          ELSE ParseLines(T, ParseLine(T, ps, lines[1]), Tail(lines)) :
          ps \in {ps0}})

(***************************************************************************)
(* BlifParser.  A parser value p is the record of its four fields; the     *)
(* result of clean_parse adds the panic that ended it, if any, and the ids *)
(* the reserved lookups returned (`reserved`, empty when none was made).   *)
(***************************************************************************)
ReservedFailed == Panic("assertion failed: reserved wire id")

(* assert_eq!(get_wire_id(name), id) as the next lookup of st *)
AssertWireId(st0, name, id) ==
    Only({IF st.panic = None /\ st.ids[Len(st.ids)] # id
          THEN [st EXCEPT !.panic = ReservedFailed]
          ELSE st :
          st \in {Intern(st0, name)}})

(* assert_eq!(get_wire_id("$false"), 0); assert_eq!(get_wire_id("$true"), 1) *)
ReservedLookups(h) ==
    AssertWireId(AssertWireId(Interning(h), Str("$false"), 0), Str("$true"), 1)

(* A fresh module holding the two reserved gates: `current` at the start of
   the parse. *)
ParseStart(T, h, queue) ==
    [hasher |-> h, current |-> SeededModule(T), current_subcircuit |-> None,
     circuit |-> queue, panic |-> None]

clean_parse(T, p) ==
    IF ~IsSome(p.reader)
    THEN [reader |-> p.reader, hasher |-> p.hasher, parsed |-> TRUE,
          circuit |-> p.circuit, panic |-> None, reserved |-> <<>>]
    ELSE Only({IF looked.panic # None
               THEN [reader |-> None, hasher |-> looked.hasher, parsed |-> TRUE,
                     circuit |-> p.circuit, panic |-> looked.panic,
                     reserved |-> looked.ids]
               ELSE Only({[reader |-> None, hasher |-> ps.hasher, parsed |-> TRUE,
                           circuit |-> ps.circuit, panic |-> ps.panic,
                           reserved |-> looked.ids] :
                          ps \in {ParseLines(T, ParseStart(T, looked.hasher, p.circuit),
                                             p.reader[2])}}) :
               looked \in {ReservedLookups(p.hasher)}})

(* if !self.parsed { self.clean_parse(); } *)
ParsedParser ==
    IF parsed
    THEN [reader |-> reader, hasher |-> hasher, parsed |-> parsed,
          circuit |-> circuit, panic |-> None, reserved |-> <<>>]
    ELSE clean_parse(dom, [reader |-> reader, hasher |-> hasher, parsed |-> parsed,
                           circuit |-> circuit])

(* The log after a call whose parse run, if it made one, is p: the ids the
   reserved lookups of each run returned, the files handed to the parser
   and the descriptors next has returned, in call order. *)
Logged(p, handed, out) ==
    [runs |-> IF p.reserved = <<>> THEN log.runs ELSE Append(log.runs, p.reserved),
     files |-> log.files + Len(handed),
     lines |-> log.lines + (IF handed = <<>> THEN 0 ELSE Len(handed[1])),
     given |-> log.given \o handed,
     emitted |-> log.emitted \o out]

(* A plausible slip: add_file replacing a pending file without parsing
   it. *)
AddFileOfReplacing(p, file) ==
       /\ UNCHANGED <<hasher, circuit, fatal>>
       /\ reader' = Some(file)
       /\ parsed' = FALSE
       /\ call' = <<"add_file">>
       /\ ret' = None
       /\ log' = Logged([p EXCEPT !.reserved = <<>>], <<file>>, <<>>)
       /\ UNCHANGED <<gate, dom, debug_assertions, hasherVars,
                 evalVars>>

(* add_file, p being the parser after its parse run, if it made one *)
AddFileOf(p, file) ==
       /\ hasher' = p.hasher
       /\ circuit' = p.circuit
       /\ fatal' = p.panic
       /\ reader' = IF p.panic = None THEN Some(file) ELSE p.reader
       /\ parsed' = IF p.panic = None THEN FALSE ELSE p.parsed
       /\ call' = <<"add_file">>
       /\ ret' = None
       /\ log' = Logged(p, <<file>>, <<>>)
       /\ UNCHANGED <<gate, dom, debug_assertions, hasherVars,
                 evalVars>>

(* A plausible slip: next taking the newest descriptor of the queue,
   self.circuit.pop(). *)
NextCallNewest ==
    /\ fatal = None
    /\ \E p \in {ParsedParser} :
          /\ hasher' = p.hasher
          /\ reader' = p.reader
          /\ parsed' = p.parsed
          /\ fatal' = p.panic
          /\ call' = <<"next">>
          /\ IF p.panic = None /\ p.circuit # <<>>
             THEN /\ circuit' = SubSeq(p.circuit, 1, Len(p.circuit) - 1)
                  /\ ret' = Some(p.circuit[Len(p.circuit)])
                  /\ log' = Logged(p, <<>>, <<p.circuit[Len(p.circuit)]>>)
             ELSE /\ circuit' = p.circuit
                  /\ ret' = None
                  /\ log' = Logged(p, <<>>, <<>>)
          /\ UNCHANGED <<gate, dom, debug_assertions, hasherVars,
                 evalVars>>

(* next *)
NextCall ==
    /\ fatal = None
    /\ \E p \in {ParsedParser} :
          /\ hasher' = p.hasher
          /\ reader' = p.reader
          /\ parsed' = p.parsed
          /\ fatal' = p.panic
          /\ call' = <<"next">>
          /\ IF p.panic = None /\ p.circuit # <<>>
             THEN /\ circuit' = Tail(p.circuit)
                  /\ ret' = Some(Head(p.circuit))
                  /\ log' = Logged(p, <<>>, <<Head(p.circuit)>>)
             ELSE /\ circuit' = p.circuit
                  /\ ret' = None
                  /\ log' = Logged(p, <<>>, <<>>)
          /\ UNCHANGED <<gate, dom, debug_assertions, hasherVars,
                 evalVars>>

(* What the parser specifications start from: BlifParser::default() when
   `r` is None, BlifParser::new(file) when it is Some(file). *)
InitParserWith(r) ==
    /\ InitOthersOfEval
    /\ gate = <<"Input", 0>>
    /\ call = <<"new">>
    /\ ret = None
    /\ queried = <<>>
    /\ returned = <<>>
    /\ hasher = WireHasher_new
    /\ reader = r
    /\ parsed = FALSE
    /\ circuit = <<>>
    /\ fatal = None
    /\ log = [runs |-> <<>>,
              files |-> IF IsSome(r) THEN 1 ELSE 0,
              lines |-> IF IsSome(r) THEN Len(r[2]) ELSE 0,
              given |-> IF IsSome(r) THEN <<r[2]>> ELSE <<>>,
              emitted |-> <<>>]

(***************************************************************************)
(* SpecParser: one parser fed several short files, add_file and next       *)
(* interleaved.                                                            *)
(***************************************************************************)
MaxFiles == 2

MaxLines == 3

LineSamples ==
    {<<".model", "m">>,
     <<".gate", "MUL", <<Wire("A", NoIdx), Wire("a", NoIdx)>>,
                       <<Wire("B", NoIdx), Wire("b", NoIdx)>>,
                       <<Wire("OUT", NoIdx), Wire("y", NoIdx)>>>>,
     <<".conn", Wire("$true", NoIdx), Wire("z", NoIdx)>>,
     <<".names", Wire("a", NoIdx), Wire("y", NoIdx)>>,
     <<".end">>}

FilesWithin(n) == SeqsUpTo(LineSamples, n)

InitParser ==
    /\ dom \in ParserDomains
    /\ debug_assertions \in BOOLEAN
    /\ \E r \in {None} \cup {Some(f) : f \in FilesWithin(MaxLines)} : InitParserWith(r)

AddFile ==
    /\ fatal = None
    /\ log.files < MaxFiles
    /\ \E p \in {ParsedParser} :
          \E file \in FilesWithin(MaxLines - log.lines) : AddFileOf(p, file)

NextParser ==
    \/ AddFile
    \/ NextCall

SpecParser == InitParser /\ [][NextParser]_vars

(***************************************************************************)
(* SpecGateLines: a parser built on one file, a module of gate lines of    *)
(* every mnemonic and pin count, and drained by next.                      *)
(***************************************************************************)
GateMnemonics(T) ==
    IF T = "bool"
    THEN {"AND", "MUL", "XOR", "ADD", "NOT", "INV", "BUF", "RAND", "CONST"}
    ELSE {"MUL", "MULC", "ADD", "ADDC", "SUB", "SUBC", "BUF", "RAND", "CONST"}

Pin(lhs, rhs) == <<Wire(lhs, NoIdx), Wire(rhs, NoIdx)>>

PinLists ==
    {<<Pin("OUT", "y")>>,
     <<Pin("A", "a"), Pin("OUT", "y")>>,
     <<Pin("A", "a"), Pin("B", "b"), Pin("OUT", "y")>>,
     <<Pin("A", "$true"), Pin("B", "a"), Pin("C", "b"), Pin("OUT", "y")>>}

GateLines(T) ==
    {<<".gate", op>> \o pins : op \in GateMnemonics(T) \cup {"FOO"}, pins \in PinLists}
    \cup {<<".names", Wire("a", NoIdx), Wire("y", NoIdx)>>,
          <<".conn", Wire("b", NoIdx), Wire("y", NoIdx)>>}

MaxGateLines == 1

GateFiles(T) ==
    {<<<<".model", "m">>>> \o body \o <<<<".end">>>> :
        body \in SeqsUpTo(GateLines(T), MaxGateLines)}

InitGateLines ==
    /\ dom \in ParserDomains
    /\ debug_assertions \in BOOLEAN
    /\ \E f \in GateFiles(dom) : InitParserWith(Some(f))

NextGateLines == NextCall

SpecGateLines == InitGateLines /\ [][NextGateLines]_vars

(***************************************************************************)
(* Properties of the parser (SpecParser, SpecGateLines).                   *)
(***************************************************************************)
(* C2: in every parse run of a parser, the first file's and every later
   file's, the lookups of "$false" and "$true" at the start of clean_parse
   return 0 and 1, and neither assertion fails. *)
C2_ReservedIds ==
    /\ \A k \in 1..Len(log.runs) : log.runs[k] = <<0, 1>>
    /\ fatal # ReservedFailed
    /\ log.runs # <<>> => /\ hasher.hashes[Hash(Str("$false"))] = 0
                          /\ hasher.hashes[Hash(Str("$true"))] = 1

(* Two files parsed, the first of which interned the wires of a gate
   before the second run made its lookups: next has returned the module of
   the first and the module of the second is queued. *)
C2_Witness ==
    /\ log.runs = <<(<<0, 1>>), (<<0, 1>>)>>
    /\ IsSome(ret)
    /\ Len(ret[2].gates) = 3
    /\ Len(circuit) = 1
    /\ fatal = None

(* C10: no line of a file makes Operation::construct panic for a missing
   wire or a missing constant: the parse never ends in a shape violation. *)
C10_NoShapeViolation == ~(IsPanic(fatal) /\ fatal[2] \in ShapeViolations)

(***************************************************************************)
(* What the gate lines are meant to build.                                 *)
(***************************************************************************)
(* The variant a mnemonic stands for. *)
VariantOf(op) ==
    CASE op \in {"AND", "MUL"} -> "Mul"
      [] op \in {"XOR", "ADD"} -> "Add"
      [] op \in {"NOT", "INV", "BUF", "ADDC"} -> "AddConst"
      [] op = "RAND" -> "Random"
      [] op = "CONST" -> "Const"
      [] op = "MULC" -> "MulConst"
      [] op = "SUBC" -> "SubConst"
      [] op = "SUB" -> "Sub"

(* The id the parser's hasher holds for wire token w of module `context`. *)
WireId(context, w) == hasher.hashes[Hash(format_wire_id(context, w))]

(* g is the gate of variant v on the wires out and ins, whatever its
   constant. *)
IsGateOn(g, v, out, ins) ==
    /\ g[1] = v
    /\ g[2] = out
    /\ \A k \in 1..InArity(g) : g[2 + k] = ins[k]

(* The only body line of the file a parser of one-module files was built
   on. *)
OnlyLine == log.given[1][2]

(* C11: a .gate line with a recognized mnemonic and at least the input pins
   its gate takes appends exactly that gate, on the ids of the wires of its
   pins, to the module; a line with any other mnemonic ends the parse
   fatally. *)
C11_GateLineAppendsGate ==
    (call[1] = "next" /\ Len(log.given[1]) = 3 /\ OnlyLine[1] = ".gate") =>
        LET op == OnlyLine[2]
            pins == SubSeq(OnlyLine, 3, Len(OnlyLine))
            out == WireId("m", pins[Len(pins)][2])
            ins == [k \in 1..(Len(pins) - 1) |-> WireId("m", pins[k][2])]
            arity == IF VariantOf(op) \in BinaryOps THEN 2
                     ELSE IF VariantOf(op) \in BinaryConstOps THEN 1 ELSE 0
        IN IF op \notin GateMnemonics(dom) THEN IsPanic(fatal)
           ELSE Len(pins) - 1 >= arity =>
                   /\ fatal = None
                   /\ log.emitted # <<>>
                   /\ Len(log.emitted[1].gates) = 3
                   /\ IsGateOn(log.emitted[1].gates[3], VariantOf(op), out, ins)

(***************************************************************************)
(* What the files handed to a parser are meant to yield, read off the      *)
(* text: the modules closed by an .end, in order, and the gates of their   *)
(* lines.                                                                  *)
(***************************************************************************)
(* The files whose parse run has been made. *)
ParsedFiles ==
    IF IsSome(reader) THEN SubSeq(log.given, 1, Len(log.given) - 1) ELSE log.given

(* The index of the first .end among the lines, 0 if there is none. *)
FirstEnd(lines) ==
    IF \E k \in 1..Len(lines) : lines[k][1] = ".end"
    THEN CHOOSE k \in 1..Len(lines) :
            lines[k][1] = ".end" /\ \A j \in 1..(k - 1) : lines[j][1] # ".end"
    ELSE 0

(* The modules of a file that an .end closes: each the lines before its
   .end. *)
RECURSIVE ClosedModules(_)
ClosedModules(lines) ==
    IF FirstEnd(lines) = 0 THEN <<>>
    ELSE <<SubSeq(lines, 1, FirstEnd(lines) - 1)>>
         \o ClosedModules(SubSeq(lines, FirstEnd(lines) + 1, Len(lines)))

AllClosedModules ==
    Flatten([k \in 1..Len(ParsedFiles) |-> ClosedModules(ParsedFiles[k])])

(* The name in force after the lines of a module: that of its last .model
   line, empty without one. *)
RECURSIVE NameAfter(_)
NameAfter(lines) ==
    IF lines = <<>> THEN ""
    ELSE IF lines[Len(lines)][1] = ".model" THEN lines[Len(lines)][2]
    ELSE NameAfter(SubSeq(lines, 1, Len(lines) - 1))

(* The gate a .gate, .names or .conn line stands for in the module named
   `context`, on the ids of its wires. *)
GateOfLine(T, context, line) ==
    IF line[1] = ".gate"
    THEN LET v == VariantOf(line[2])
             out == WireId(context, line[Len(line)][2])
             in1 == WireId(context, line[3][2])
             in2 == WireId(context, line[4][2])
         IN CASE v \in BinaryOps -> <<v, out, in1, in2>>
              [] line[2] \in {"NOT", "INV"} -> <<v, out, in1, One(T)>>
              [] line[2] = "BUF" -> <<v, out, in1, Zero(T)>>
              [] v = "Random" -> <<v, out>>
    ELSE <<"AddConst", WireId(context, line[Len(line)]), WireId(context, line[2]), Zero(T)>>

(* The gates of the lines of a module, in line order. *)
RECURSIVE GatesOfLines(_, _)
GatesOfLines(T, lines) ==
    IF lines = <<>> THEN <<>>
    ELSE LET front == SubSeq(lines, 1, Len(lines) - 1)
             last == lines[Len(lines)]
         IN GatesOfLines(T, front)
            \o (IF last[1] \in {".gate", ".names", ".conn"}
                THEN <<GateOfLine(T, NameAfter(front), last)>>
                ELSE <<>>)

(* C12: the k-th descriptor returned by next holds Const(0, zero) and
   Const(1, one) and then the gates of the .gate, .names and .conn lines of
   the k-th closed module, in line order, and nothing else. *)
C12_ModuleGates ==
    \A k \in 1..Len(log.emitted) :
        log.emitted[k].gates
            = <<(<<"Const", 0, Zero(dom)>>), (<<"Const", 1, One(dom)>>)>>
              \o GatesOfLines(dom, AllClosedModules[k])

(* A descriptor returned for a module with a .gate and a .conn line, and
   one returned for a module of a second file. *)
C12_Witness ==
    /\ Len(log.emitted) = 1
    /\ Len(log.emitted[1].gates) = 4
    /\ log.emitted[1].gates[4][1] = "AddConst"

C12_WitnessLaterFile ==
    /\ Len(log.emitted) = 2
    /\ Len(log.given) = 2
    /\ Len(log.emitted[1].gates) = 3
    /\ log.emitted[2].gates = ReservedGates(dom)

(* A module whose text is only a .model line. *)
OnlyModelLine(lines) == Len(lines) = 1 /\ lines[1][1] = ".model"

(* The closed modules other than those of only a .model line. *)
KeptModules == SelectSeq(AllClosedModules, LAMBDA m : ~OnlyModelLine(m))

(* C13: a module of only `.model X` and `.end` is dropped: the descriptors
   returned by next and those still queued are those of the other closed
   modules, in order and with their gates unaffected. *)
C13_EmptyModuleDropped ==
    fatal = None =>
        LET out == log.emitted \o circuit
        IN /\ Len(out) = Len(KeptModules)
           /\ \A k \in 1..Len(out) :
                 out[k].gates = ReservedGates(dom) \o GatesOfLines(dom, KeptModules[k])

(* The descriptor of a closed module of .model, .gate, .names and .conn
   lines. *)
ExpectedDesc(T, lines) ==
    [name |-> NameAfter(lines), inputs |-> <<>>, outputs |-> <<>>,
     gates |-> ReservedGates(T) \o GatesOfLines(T, lines),
     subcircuits |-> <<>>]

(* The descriptors of the closed modules of the parsed files, in file
   order and then .end order. *)
ExpectedDescs ==
    [k \in 1..Len(AllClosedModules) |-> ExpectedDesc(dom, AllClosedModules[k])]

(* C14: the k-th descriptor next returns is that of the k-th module closed
   by an .end, each is returned once, and next returns None exactly when
   every closed module has been returned. *)
C14_Fifo ==
    (fatal = None /\ call[1] = "next") =>
        /\ Len(log.emitted) <= Len(ExpectedDescs)
        /\ log.emitted = SubSeq(ExpectedDescs, 1, Len(log.emitted))
        /\ IsSome(ret) => ret[2] = ExpectedDescs[Len(log.emitted)]
        /\ ret = None => Len(log.emitted) = Len(ExpectedDescs)

(* Two different descriptors returned in the order of their .end lines,
   and None after them. *)
C14_Witness ==
    /\ call[1] = "next"
    /\ ret = None
    /\ Len(log.emitted) = 2
    /\ Len(log.emitted[1].gates) = 3
    /\ Len(log.emitted[2].gates) = 2

(* C15: every file handed to the parser is parsed once, a pending file is
   parsed before add_file replaces it, and the descriptors returned and
   queued are those of the parsed files in file order and then .end order,
   none lost and none duplicated. *)
C15_FilesParsedOnce ==
    fatal = None =>
        /\ Len(log.runs) = Len(ParsedFiles)
        /\ IsSome(reader) =>
              /\ ~parsed
              /\ log.given # <<>>
              /\ reader[2] = log.given[Len(log.given)]
        /\ call[1] = "add_file" => Len(log.runs) = Len(log.given) - 1
        /\ call[1] = "next" => Len(log.runs) = Len(log.given)
        /\ log.emitted \o circuit = ExpectedDescs

(* add_file on a parser whose first file, holding a module, was still
   pending: the module is queued though next was never called. *)
C15_Witness ==
    /\ call[1] = "add_file"
    /\ Len(log.given) = 2
    /\ Len(log.runs) = 1
    /\ log.emitted = <<>>
    /\ Len(circuit) = 1
    /\ Len(circuit[1].gates) = 3

(* Two files, each closing a module, drained in file order. *)
C15_WitnessDrained ==
    /\ Len(log.given) = 2
    /\ Len(log.runs) = 2
    /\ Len(log.given[1]) = 2
    /\ log.given[1][2] = <<".end">>
    /\ log.given[2] = <<(<<".end">>)>>
    /\ Len(log.emitted) = 2
    /\ Len(log.emitted[1].gates) = 3
    /\ call[1] = "next"

(* The parsed files that end in an open module: lines after their last
   .end, or no .end at all. *)
HasOpenTail(file) == file # <<>> /\ file[Len(file)][1] # ".end"

EndCount(file) == Cardinality({k \in 1..Len(file) : file[k][1] = ".end"})

RECURSIVE SumOver(_)
SumOver(ns) == IF ns = <<>> THEN 0 ELSE ns[1] + SumOver(Tail(ns))

(* C16: when a parsed file ends in an open module, no descriptor is made
   for it: there are as many descriptors as .end lines, and they are those
   of the closed modules. *)
C16_OpenModuleDiscarded ==
    (fatal = None /\ \E k \in 1..Len(ParsedFiles) : HasOpenTail(ParsedFiles[k])) =>
        LET out == log.emitted \o circuit
        IN /\ Len(out) = SumOver([k \in 1..Len(ParsedFiles) |-> EndCount(ParsedFiles[k])])
           /\ \A k \in 1..Len(out) : out[k] = ExpectedDescs[k]

(* A file of a closed module followed by an open one with a gate line,
   drained. *)
C16_Witness ==
    /\ Len(log.given) = 1
    /\ Len(log.given[1]) = 3
    /\ log.given[1][2] = <<".end">>
    /\ log.given[1][3][1] = ".gate"
    /\ call[1] = "next"
    /\ ret = None
    /\ Len(log.emitted) = 1
    /\ Len(log.emitted[1].gates) = 3

(***************************************************************************)
(* SpecNames: a parser fed files whose modules and wires have names with  *)
(* and without "::" in them, and drained by next.                          *)
(***************************************************************************)
NameLineSamples ==
    {<<".model", "m">>,
     <<".model", "m::a">>,
     <<".conn", Wire("$true", NoIdx), Wire("y", NoIdx)>>,
     <<".conn", Wire("$false", NoIdx), Wire("a::y", NoIdx)>>,
     <<".end">>}

MaxNameLines == 4

NameFilesWithin(n) == SeqsUpTo(NameLineSamples, n)

InitNames ==
    /\ dom \in ParserDomains
    /\ debug_assertions \in BOOLEAN
    /\ \E r \in {None} \cup {Some(f) : f \in NameFilesWithin(MaxNameLines)} :
          InitParserWith(r)

AddNamesFile ==
    /\ fatal = None
    /\ log.files < MaxFiles
    /\ \E p \in {ParsedParser} :
          \E file \in NameFilesWithin(MaxNameLines - log.lines) : AddFileOf(p, file)

NextNames ==
    \/ AddNamesFile
    \/ NextCall

SpecNames == InitNames /\ [][NextNames]_vars

(* The module name in force at line k of a file: that of the last .model
   line since the last .end. *)
ContextAt(file, k) ==
    LET ends == {j \in 1..(k - 1) : file[j][1] = ".end"}
        from == IF ends = {} THEN 1
                ELSE 1 + CHOOSE j \in ends : \A i \in ends : i <= j
    IN NameAfter(SubSeq(file, from, k - 1))

(* The wire names a line uses. *)
WiresOfLine(line) ==
    CASE line[1] = ".gate" -> {line[k][2] : k \in 3..Len(line)}
      [] line[1] \in {".names", ".conn"} -> {line[2], line[Len(line)]}
      [] OTHER -> {}

(* The uses of wire names in the parsed files: the module and the name. *)
Uses ==
    UNION {UNION {{<<ContextAt(ParsedFiles[f], k), w>> :
                      w \in WiresOfLine(ParsedFiles[f][k])} :
                  k \in 1..Len(ParsedFiles[f])} :
           f \in 1..Len(ParsedFiles)}

Literal(w) == w \in {Str("$true"), Str("$false")}

(* The ids given to names: none is changed by a step. *)
IdsKept ==
    \A h \in DOMAIN hasher.hashes :
        h \in DOMAIN hasher'.hashes /\ hasher'.hashes[h] = hasher.hashes[h]

(* Two uses share an id only when they are the same name in the same
   module or the same literal, and the literals have the ids 1 and 0. *)
ScopedIds ==
    fatal = None =>
        \A u1, u2 \in Uses :
            /\ WireId(u1[1], u1[2]) = WireId(u2[1], u2[2]) =>
                  \/ u1 = u2
                  \/ Literal(u1[2]) /\ u1[2] = u2[2]
            /\ u1[2] = Str("$true") => WireId(u1[1], u1[2]) = 1
            /\ u1[2] = Str("$false") => WireId(u1[1], u1[2]) = 0

(* C17: within the files of one parser, a wire name of one module and a
   wire name of another have the same id only if the modules and the names
   are the same, except that $true and $false have the ids 1 and 0
   everywhere; and no step changes an id once given. *)
C17_ScopedIds == [](ScopedIds) /\ [][IdsKept]_vars

(***************************************************************************)
(* SpecSubckt: a parser built on one file, a module `top` of .subckt and   *)
(* .attr lines, and drained by next.                                       *)
(***************************************************************************)
SubcktLineSamples ==
    {<<".subckt", "s", Pin("a", "x")>>,
     <<".subckt", "s", <<Wire("a", NoIdx), Wire("x", 1)>>>>,
     <<".subckt", "t", Pin("b", "x")>>,
     <<".subckt", "s", Pin("a", "$true")>>,
     <<".attr", Wire("a", NoIdx), <<"1", "0">>>>,
     <<".attr", Wire("a", NoIdx), <<"1", "1">>>>}

MaxSubcktLines == 4

SubcktFiles ==
    {<<(<<".model", "top">>)>> \o body \o <<(<<".end">>)>> :
        body \in SeqsUpTo(SubcktLineSamples, MaxSubcktLines)}

InitSubckt ==
    /\ dom \in ParserDomains
    /\ debug_assertions \in BOOLEAN
    /\ \E f \in SubcktFiles : InitParserWith(Some(f))

NextSubckt == NextCall

SpecSubckt == InitSubckt /\ [][NextSubckt]_vars

(***************************************************************************)
(* What the .subckt lines of the module are meant to connect, read off the *)
(* text of the file.                                                       *)
(***************************************************************************)
(* The lines between .model and .end. *)
SubcktBody == SubSeq(log.given[1], 2, Len(log.given[1]) - 1)

(* The positions of the .subckt lines, in line order. *)
SubcktLinesAt ==
    SelectSeq([i \in 1..Len(SubcktBody) |-> i], LAMBDA i : SubcktBody[i][1] = ".subckt")

Instance(i) == SubcktBody[i][2]
ChildPin(i) == SubcktBody[i][3][1]
ParentWire(i) == SubcktBody[i][3][2]

(* The index a name carries, 0 without a bracket. *)
IdxOf(w) == IF w[3] = NoIdx THEN 0 ELSE w[3]

(* A width token read as a binary numeral. *)
RECURSIVE ReadBinary(_)
ReadBinary(digits) ==
    IF digits = <<>> THEN 0
    ELSE 2 * ReadBinary(SubSeq(digits, 1, Len(digits) - 1))
         + (IF digits[Len(digits)] = "1" THEN 1 ELSE 0)

(* The .attr lines that follow the .subckt line i, up to the next .subckt
   line, and name its child pin. *)
AttrsOf(i) ==
    {j \in (i + 1)..Len(SubcktBody) :
        /\ SubcktBody[j][1] = ".attr"
        /\ \A m \in (i + 1)..j : SubcktBody[m][1] # ".subckt"
        /\ SubcktBody[j][2][2] = ChildPin(i)[2]}

(* The width the child pin of line i is marked with, 0 when it is not
   marked: that of the last .attr line naming it. *)
ChildWidth(i) ==
    IF AttrsOf(i) = {} THEN 0
    ELSE ReadBinary(SubcktBody[CHOOSE j \in AttrsOf(i) : \A m \in AttrsOf(i) : m <= j][3])

(* The widths the parent wire of line i was marked with by the packed
   connections of the earlier .subckt lines. *)
ParentWidths(i) ==
    {ChildWidth(j) : j \in {m \in 1..(i - 1) :
                              /\ SubcktBody[m][1] = ".subckt"
                              /\ ParentWire(m)[2] = ParentWire(i)[2]
                              /\ ChildWidth(m) > 0}}

(* The number of pairs the connection of line i is meant to yield. *)
ExpectedPairs(i) ==
    IF ChildWidth(i) > 0 THEN ChildWidth(i)
    ELSE IF ParentWidths(i) # {} THEN CHOOSE w \in ParentWidths(i) : TRUE
    ELSE 1

(* The connections of the k-th subcircuit of the descriptor returned. *)
ConnectionsOf(k) == log.emitted[1].subcircuits[k].connections

(* C18: in the descriptor returned, a connection whose child pin or whose
   parent wire is marked packed with width w (by the .attr lines after its
   .subckt line) has exactly w pairs, and every other connection one. *)
C18_PackedExpansion ==
    log.emitted # <<>> =>
        \A k \in 1..Len(SubcktLinesAt) :
            Len(ConnectionsOf(k)) = ExpectedPairs(SubcktLinesAt[k])

(* C19: the pairs of a packed connection of width w take the child bits
   ascending and the parent bits of the slice descending: pair i is parent
   bit w-1-i with child bit i. *)
C19_ReversedPairing ==
    log.emitted # <<>> =>
        \A k \in 1..Len(SubcktLinesAt) :
            LET i == SubcktLinesAt[k]
                w == ChildWidth(i)
                parent(n) == <<NoContext, ParentWire(i)[2], (IdxOf(ParentWire(i)) * w) + n>>
                child(n) == <<NoContext, ChildPin(i)[2], (IdxOf(ChildPin(i)) * w) + n>>
            IN (w > 0 /\ ~Literal(ParentWire(i))) =>
                  /\ Len(ConnectionsOf(k)) = w
                  /\ \A b \in 0..(w - 1) :
                        ConnectionsOf(k)[b + 1]
                            = <<WireId("top", parent(w - 1 - b)), WireId(Instance(i), child(b))>>

(* C20: when every parent wire of the module is a literal and a child pin
   connected to one is packed with width w, the parse does not fail, and
   the w pairs of that connection hold the id of the literal, 1 or 0, and
   the child bits. *)
C20_LiteralBroadcast ==
    (/\ call[1] = "next"
     /\ \A k \in 1..Len(SubcktLinesAt) : Literal(ParentWire(SubcktLinesAt[k]))
     /\ \E k \in 1..Len(SubcktLinesAt) : ChildWidth(SubcktLinesAt[k]) > 0) =>
        /\ fatal = None
        /\ log.emitted # <<>>
        /\ \A k \in 1..Len(SubcktLinesAt) :
              LET i == SubcktLinesAt[k]
                  w == ChildWidth(i)
                  child(n) == <<NoContext, ChildPin(i)[2], (IdxOf(ChildPin(i)) * w) + n>>
              IN w > 0 =>
                    ConnectionsOf(k)
                        = [b \in 1..w |->
                              <<(IF ParentWire(i) = Str("$true") THEN 1 ELSE 0),
                                WireId(Instance(i), child(b - 1))>>]

WidthMismatch == Panic("packed wire was supposed to be of another width")

(* Two .subckt lines that connect the same parent wire, not a literal, to
   child pins packed with different widths. *)
MismatchedLines ==
    {p \in (1..Len(SubcktBody)) \X (1..Len(SubcktBody)) :
        /\ p[1] < p[2]
        /\ SubcktBody[p[1]][1] = ".subckt"
        /\ SubcktBody[p[2]][1] = ".subckt"
        /\ ~Literal(ParentWire(p[1]))
        /\ ParentWire(p[1])[2] = ParentWire(p[2])[2]
        /\ ChildWidth(p[1]) > 0
        /\ ChildWidth(p[2]) > 0
        /\ ChildWidth(p[1]) # ChildWidth(p[2])}

LiteralParents ==
    {i \in 1..Len(SubcktBody) : SubcktBody[i][1] = ".subckt" /\ Literal(ParentWire(i))}

(* C21: when one parent wire is connected to packed child pins of two
   different widths, the parse ends in a panic and no descriptor of the
   module is returned or queued; without a literal parent in the module,
   the panic is the width mismatch. *)
C21_WidthMismatchFatal ==
    (call[1] = "next" /\ MismatchedLines # {}) =>
        /\ IsPanic(fatal)
        /\ ret = None
        /\ log.emitted = <<>>
        /\ circuit = <<>>
        /\ LiteralParents = {} => fatal = WidthMismatch

(* The wire x connected with width 2 and then with width 3, the parse
   ended by the mismatch. *)
C21_Witness ==
    /\ call[1] = "next"
    /\ MismatchedLines # {}
    /\ LiteralParents = {}
    /\ fatal = WidthMismatch
    /\ log.emitted = <<>>

(***************************************************************************)
(* SpecPackedGates: a parser built on one file, a module `top` whose wire  *)
(* x is connected to a packed child pin and used by gate lines, drained by *)
(* next.                                                                   *)
(***************************************************************************)
PackedGateLineSamples ==
    {<<".subckt", "s", Pin("a", "x")>>,
     <<".attr", Wire("a", NoIdx), <<"1", "0">>>>,
     <<".subckt", "t", Pin("b", "z")>>,
     <<".conn", Wire("x", NoIdx), Wire("y", NoIdx)>>,
     <<".conn", Wire("y", NoIdx), Wire("x", NoIdx)>>,
     <<".conn", Wire("y", NoIdx), Wire("z", NoIdx)>>}

PackedGateFiles ==
    {<<(<<".model", "top">>)>> \o body \o <<(<<".end">>)>> :
        body \in SeqsUpTo(PackedGateLineSamples, MaxSubcktLines)}

InitPackedGates ==
    /\ dom \in ParserDomains
    /\ debug_assertions \in BOOLEAN
    /\ \E f \in PackedGateFiles : InitParserWith(Some(f))

NextPackedGates == NextCall

SpecPackedGates == InitPackedGates /\ [][NextPackedGates]_vars

(* The parent wires of the module connected to a packed child pin. *)
PackedParents ==
    {ParentWire(i) : i \in {m \in 1..Len(SubcktBody) :
                              SubcktBody[m][1] = ".subckt" /\ ChildWidth(m) > 0}}

(* The gate lines of the module that read or write such a wire. *)
GateLinesOnPacked ==
    {i \in 1..Len(SubcktBody) : WiresOfLine(SubcktBody[i]) \cap PackedParents # {}}

(* C22: a gate line, before or after the .subckt line, on a parent wire
   connected to a packed child pin ends the parse in a panic, and in a
   descriptor returned no gate reads or writes the id of such a wire. *)
C22_NoGateOnPackedWire ==
    /\ (call[1] = "next" /\ GateLinesOnPacked # {}) =>
          IsPanic(fatal) /\ log.emitted = <<>> /\ circuit = <<>>
    /\ log.emitted # <<>> =>
          \A w \in PackedParents : \A k \in 1..Len(log.emitted[1].gates) :
              LET g == log.emitted[1].gates[k]
                  id == WireId("top", w)
              IN /\ \A n \in 1..Len(inputs(g)) : inputs(g)[n] # id
                 /\ \A n \in 1..Len(outputs(g)) : outputs(g)[n] # id

(***************************************************************************)
(* SpecIO: a parser built on one file, a module `m` with one .inputs or    *)
(* .outputs line, drained by next.                                         *)
(***************************************************************************)
IoTokenSamples ==
    {Wire("x", 0), Wire("x", 1), Wire("x", NoIdx), Wire("xy", NoIdx), Wire("c", NoIdx)}

MaxIoTokens == 4

IoLines ==
    {<<cmd>> \o tokens :
        cmd \in {".inputs", ".outputs"}, tokens \in SeqsUpTo(IoTokenSamples, MaxIoTokens)}

IoFiles == {<<(<<".model", "m">>), line, (<<".end">>)>> : line \in IoLines}

InitIO ==
    /\ dom \in ParserDomains
    /\ debug_assertions \in BOOLEAN
    /\ \E f \in IoFiles : InitParserWith(Some(f))

NextIO == NextCall

SpecIO == InitIO /\ [][NextIO]_vars

(***************************************************************************)
(* What an .inputs or .outputs line is meant to record, read off its       *)
(* tokens.                                                                 *)
(***************************************************************************)
(* The first position of the run that holds position p: a token stays in
   the run of the token before it when it starts with the text the run's
   first token has before its bracket. *)
RECURSIVE RunStart(_, _)
RunStart(tokens, p) ==
    IF p = 1 THEN 1
    ELSE LET a == RunStart(tokens, p - 1)
         IN IF starts_with(tokens[p], tokens[a][2]) THEN a ELSE p

(* The last position of that run. *)
RunEnd(tokens, p) ==
    CHOOSE b \in p..Len(tokens) :
        /\ RunStart(tokens, b) = RunStart(tokens, p)
        /\ b < Len(tokens) => RunStart(tokens, b + 1) # RunStart(tokens, p)

(* The tokens with every run reversed in place. *)
RunsReversed(tokens) ==
    [p \in 1..Len(tokens) |->
        tokens[RunStart(tokens, p) + RunEnd(tokens, p) - p]]

IoLine == log.given[1][2]

(* C23: parse_io splits the tokens of an .inputs or .outputs line into
   non-empty runs whose concatenation is the line, each run the tokens
   that start with the base (text before the bracket) of its first token;
   the names recorded are the tokens with every run reversed, the runs in
   line order, and the descriptor holds their ids in that order. *)
C23_RunsReversed ==
    LET tokens == Tail(IoLine)
        chunks == parse_io(tokens)
        expected == RunsReversed(tokens)
        ids == [p \in 1..Len(expected) |-> WireId("m", expected[p])]
    IN /\ Flatten(chunks) = tokens
       /\ \A k \in 1..Len(chunks) :
             /\ chunks[k] # <<>>
             /\ \A n \in 1..Len(chunks[k]) : starts_with(chunks[k][n], chunks[k][1][2])
       /\ log.emitted # <<>> =>
             /\ IoLine[1] = ".inputs" => log.emitted[1].inputs = ids
             /\ IoLine[1] = ".outputs" => log.emitted[1].outputs = ids

(* The line `.inputs x[0] x[1] c` recorded as x[1] x[0] c. *)
C23_Witness ==
    /\ IoLine = <<".inputs", Wire("x", 0), Wire("x", 1), Wire("c", NoIdx)>>
    /\ log.emitted # <<>>
    /\ log.emitted[1].inputs
          = <<WireId("m", Wire("x", 1)), WireId("m", Wire("x", 0)), WireId("m", Wire("c", NoIdx))>>
    /\ WireId("m", Wire("x", 1)) < WireId("m", Wire("x", 0))

(***************************************************************************)
(* SpecPackedIO: a parser built on one file, a module `top` of .inputs,    *)
(* .outputs, .subckt, .attr and gate lines, drained by next.               *)
(***************************************************************************)
PackedIoLineSamples ==
    {<<".inputs", Wire("x", 0), Wire("x", 1), Wire("c", NoIdx)>>,
     <<".outputs", Wire("x", NoIdx), Wire("c", NoIdx)>>,
     <<".subckt", "s", Pin("a", "x")>>,
     <<".attr", Wire("a", NoIdx), <<"1", "0">>>>,
     <<".attr", Wire("a", NoIdx), <<"1", "1">>>>,
     <<".conn", Wire("c", NoIdx), Wire("t", NoIdx)>>}

PackedIoFiles ==
    {<<(<<".model", "top">>)>> \o body \o <<(<<".end">>)>> :
        body \in SeqsUpTo(PackedIoLineSamples, MaxSubcktLines)}

InitPackedIO ==
    /\ dom \in ParserDomains
    /\ debug_assertions \in BOOLEAN
    /\ \E f \in PackedIoFiles : InitParserWith(Some(f))

NextPackedIO == NextCall

SpecPackedIO == InitPackedIO /\ [][NextPackedIO]_vars

(***************************************************************************)
(* What the I/O lines of the module are meant to yield.                    *)
(***************************************************************************)
(* The entries the lines of one directive record, in line order. *)
RecordedEntries(cmd) ==
    Flatten([i \in 1..Len(SubcktBody) |->
                IF SubcktBody[i][1] = cmd THEN RunsReversed(Tail(SubcktBody[i])) ELSE <<>>])

(* The widths the base name of a wire of the module is marked with: those
   of the packed child pins it is connected to. *)
MarkedWidths(w) ==
    {ChildWidth(i) : i \in {m \in 1..Len(SubcktBody) :
                              /\ SubcktBody[m][1] = ".subckt"
                              /\ ParentWire(m)[2] = w[2]
                              /\ ChildWidth(m) > 0}}

(* The ids one entry stands for. *)
EntryIds(e) ==
    IF MarkedWidths(e) = {} THEN <<WireId("top", e)>>
    ELSE LET w == CHOOSE n \in MarkedWidths(e) : TRUE
         IN [i \in 1..w |-> WireId("top", <<NoContext, e[2], (IdxOf(e) * w) + (w - i)>>)]

ExpectedIo(cmd) ==
    Flatten([k \in 1..Len(RecordedEntries(cmd)) |-> EntryIds(RecordedEntries(cmd)[k])])

(* C28: in the descriptor returned, an input or output entry b[idx] (bare
   b: idx 0) whose base name is marked packed with width w is replaced by
   the w ids of b[idx*w + i], i from w-1 down to 0, every other entry
   keeps one id, and the entries keep their order. *)
C28_PackedIoExpansion ==
    log.emitted # <<>> =>
        /\ log.emitted[1].inputs = ExpectedIo(".inputs")
        /\ log.emitted[1].outputs = ExpectedIo(".outputs")

(* The inputs x[0] x[1] c and the outputs x c of a module whose wire x is
   packed with width 2: five input ids, the bits 3 2 1 0 of x before c,
   and three output ids. *)
C28_Witness ==
    /\ log.emitted # <<>>
    /\ Len(log.emitted[1].inputs) = 5
    /\ Len(log.emitted[1].outputs) = 3
    /\ log.emitted[1].inputs[1] = WireId("top", Wire("x", 3))
    /\ log.emitted[1].inputs[4] = WireId("top", Wire("x", 0))
    /\ log.emitted[1].outputs[1] = WireId("top", Wire("x", 1))

(* The set of the ids of a list is a contiguous range: max - min is its
   size less one. *)
Contiguous(ids) ==
    ids # <<>> =>
        LET S == {ids[k] : k \in 1..Len(ids)}
            max == CHOOSE m \in S : \A n \in S : n <= m
            min == CHOOSE m \in S : \A n \in S : m <= n
        IN max - min = Cardinality(S) - 1

(* C24: in every descriptor returned, the input ids and the output ids
   each form a contiguous range. *)
C24_ContiguousIo ==
    \A k \in 1..Len(log.emitted) :
        /\ Contiguous(log.emitted[k].inputs)
        /\ Contiguous(log.emitted[k].outputs)

(***************************************************************************)
(* u64.  A u64 value is the set of the positions of its one bits, bit 0    *)
(* the least significant: 0 is {}, 1 is {0}, u64::MAX is 0..63.            *)
(***************************************************************************)
U64Bits == 0..(B2AWidth - 1)

U64Zero == {}

U64One == {0}

U64Two == {1}

U64Max == U64Bits

(* u64::wrapping_shl(n): the shift amount is taken modulo 64, the bits
   shifted past bit 63 are lost. *)
wrapping_shl(v, n) ==
    {b + (n % B2AWidth) : b \in {c \in v : c + (n % B2AWidth) < B2AWidth}}

(* u64::wrapping_add: the sum modulo 2^64.  Bit i of the sum is the
   exclusive or of the two bits i and of the carry into position i; a carry
   is generated where both bits are one and travels up through positions
   where at least one bit is one.  The carry out of bit 63 is lost. *)
CarryInto(generated, travels, i) ==
    \E j \in generated : j < i /\ (j + 1)..(i - 1) \subseteq travels

SumBits(x, y, generated, travels) ==
    {i \in U64Bits : ((i \in x) # (i \in y)) # CarryInto(generated, travels, i)}

wrapping_add(a, b) ==
    Only({Only({SumBits(x, y, g, t) : g \in {x \cap y}, t \in {x \cup y}}) :
          x \in {a}, y \in {b}})

(* u64::wrapping_sub: a + (!b + 1) modulo 2^64. *)
wrapping_sub(a, b) == wrapping_add(a, wrapping_add(U64Bits \ b, U64One))

(* u64::wrapping_mul: the sum modulo 2^64 of a << i over the one bits i of
   b, added up by halves of the bit range lo..hi. *)
RECURSIVE MulRange(_, _, _, _)
MulRange(a, b, lo, hi) ==
    IF b \cap (lo..hi) = {} THEN U64Zero
    ELSE IF lo = hi THEN wrapping_shl(a, lo)
    ELSE wrapping_add(MulRange(a, b, lo, (lo + hi) \div 2),
                      MulRange(a, b, (lo + hi) \div 2 + 1, hi))

wrapping_mul(a, b) ==
    Only({MulRange(x, y, 0, B2AWidth - 1) : x \in {a}, y \in {b}})

(***************************************************************************)
(* analysis.rs: WireCounter, the analysis pass that finds the largest wire *)
(* id of each domain.  A usize addition that overflows in a debug build    *)
(* panics: the count it was computing is Poison, and the pass ends with    *)
(* the pair Panicked in place of its output.                               *)
(***************************************************************************)
Max(a, b) == IF a >= b THEN a ELSE b

MaxOf(S) == CHOOSE m \in S : \A x \in S : x <= m

Panicked == <<Poison, Poison>>

(* #[derive(Default)] *)
WireCounter_default == [arith_wires |-> 0, bool_wires |-> 0]

(* The wire ids a match arm of analyze_gate takes the maximum of. *)
ArmWires(op) ==
    IF op[1] \in BinaryOps THEN {op[2], op[3], op[4]}
    ELSE IF op[1] \in BinaryConstOps THEN {op[2], op[3]}
    ELSE {op[2]}

analyze_gate(self, g) ==
    IF g[1] = "GF2"
    THEN [self EXCEPT !.bool_wires = MaxOf({@} \cup ArmWires(g[2]))]
    ELSE IF g[1] = "Z64"
    THEN [self EXCEPT !.arith_wires = MaxOf({@} \cup ArmWires(g[2]))]
    ELSE IF g[1] = "B2A"
    THEN Only({[arith_wires |-> Max(self.arith_wires, g[2]),
                bool_wires |-> IF top = Poison THEN Poison
                               ELSE Max(self.bool_wires, top)] :
               top \in {AddUsize(g[3], B2AWidth - 1)}})
    ELSE [arith_wires |-> Max(self.arith_wires, g[2]),
          bool_wires |-> Max(self.bool_wires, g[3])]

finish_analysis(self) ==
    Only({IF a = Poison \/ b = Poison THEN Panicked ELSE <<a, b>> :
          a \in {AddUsize(self.arith_wires, 1)},
          b \in {AddUsize(self.bool_wires, 1)}})

(* AnalysisPass::analyze: analyze_gate on the gates from the i-th on, then
   finish_analysis. *)
RECURSIVE AnalyzeFrom(_, _, _)
AnalyzeFrom(self, prog, i) ==
    IF i > Len(prog) THEN finish_analysis(self)
    ELSE Only({IF next.bool_wires = Poison THEN Panicked
               ELSE AnalyzeFrom(next, prog, j) :
               next \in {analyze_gate(self, prog[i])}, j \in {i + 1}})

analyze(self, prog) == AnalyzeFrom(self, prog, 1)

(***************************************************************************)
(* eval.rs: largest_wires.  program[0] of an empty program is an index out *)
(* of bounds, a panic.                                                     *)
(***************************************************************************)
(* A plausible slip: the leading size hint is not respected (this is what
   smallest_wires computes). *)
LargestWiresUnhinted(prog) == analyze(WireCounter_default, prog)

largest_wires(prog) ==
    IF prog = <<>> THEN Panicked
    ELSE IF prog[1][1] = "SizeHint" THEN <<prog[1][2], prog[1][3]>>
    ELSE analyze(WireCounter_default, prog)

(***************************************************************************)
(* eval.rs: the two interpreters, evaluate_composite_program and dump_vcd. *)
(* A run is a record: `at` is "start" before the wire arrays exist, "loop" *)
(* inside the for loop and "done" after it, `step` counts the gates        *)
(* executed, `fatal` holds the panic that ended the run.  Wire id i is     *)
(* cell i + 1 of its array.  The run of dump_vcd also holds `vcd`, the     *)
(* value records handed to the dumper, and `stdout`, the lines printed.    *)
(***************************************************************************)
IndexOutOfBounds == Panic("index out of bounds")

(* vec![v; n] *)
Vec(v, n) == [i \in 1..n |-> v]

(* Vec::resize(n, v) on a vector of fewer than n cells. *)
Resize(w, n, v) == [i \in 1..n |-> IF i <= Len(w) THEN w[i] ELSE v]

InBounds(w, ids) == \A i \in ids : i < Len(w)

Min(a, b) == IF a <= b THEN a ELSE b

(* bool_wires.iter().skip(low).take(64): the cells the B2A loop visits. *)
SkipTake(bool_wires, low) ==
    [i \in 1..Max(0, Min(B2AWidth, Len(bool_wires) - low)) |->
        bool_wires[low + i]]

(* A plausible slip: the loop starts at wire 0 whatever `low` is. *)
B2AValueUnskipped(bool_wires, low) ==
    {i \in U64Bits : i < Len(bool_wires) /\ bool_wires[i + 1]}

(* The B2A loop.  In its i-th iteration (from 0) `power` is 1 shifted left
   i times, and the bit's term, power or 0, is added to running_val; the
   terms of the iterations lo..hi are added up by halves of the range. *)
RECURSIVE B2ATerms(_, _, _)
B2ATerms(bits, lo, hi) ==
    IF lo > hi THEN U64Zero
    ELSE IF lo = hi
    THEN (IF bits[lo] THEN wrapping_shl(U64One, lo - 1) ELSE U64Zero)
    ELSE wrapping_add(B2ATerms(bits, lo, (lo + hi) \div 2),
                      B2ATerms(bits, (lo + hi) \div 2 + 1, hi))

B2AValue(bool_wires, low) ==
    Only({B2ATerms(bits, 1, Len(bits)) : bits \in {SkipTake(bool_wires, low)}})

Aborted(st, panic) == [st EXCEPT !.fatal = panic]

(* evaluate_composite_program: the wire counts, the arrays and the
   input iterators. *)
EvaluateBegin(st, prog) ==
    Only({IF counts = Panicked THEN Aborted(st, IndexOutOfBounds)
          ELSE [st EXCEPT !.at = "loop",
                          !.bool_wires = Vec(FALSE, counts[1]),
                          !.arith_wires = Vec(U64Zero, counts[2]),
                          !.bool_inputs = prog.bool_inputs,
                          !.arith_inputs = prog.arith_inputs] :
          counts \in {largest_wires(prog.gates)}})

EvaluateStoreBool(st, to, val) ==
    IF ~InBounds(st.bool_wires, {to}) THEN Aborted(st, IndexOutOfBounds)
    ELSE [st EXCEPT !.bool_wires[to + 1] = val]

EvaluateStoreArith(st, to, val) ==
    IF ~InBounds(st.arith_wires, {to}) THEN Aborted(st, IndexOutOfBounds)
    ELSE [st EXCEPT !.arith_wires[to + 1] = val]

(* The arms of `match *gf2_insn`. *)
EvaluateGF2(st, op, random) ==
    IF op[1] = "Input"
    THEN IF st.bool_inputs = <<>>
         THEN Aborted(st, Panic("Ran out of boolean inputs"))
         ELSE EvaluateStoreBool([st EXCEPT !.bool_inputs = Tail(@)], op[2],
                           Head(st.bool_inputs))
    ELSE IF op[1] = "Random" THEN EvaluateStoreBool(st, op[2], random)
    ELSE IF op[1] = "Const" THEN EvaluateStoreBool(st, op[2], op[3])
    ELSE IF op[1] = "AssertZero"
    THEN IF ~InBounds(st.bool_wires, {op[2]}) THEN Aborted(st, IndexOutOfBounds)
         ELSE IF ~(~st.bool_wires[op[2] + 1])
         THEN Aborted(st, Panic("assertion failed: !bool_wires[src]"))
         ELSE st
    ELSE IF op[1] \in BinaryOps
    THEN IF ~InBounds(st.bool_wires, {op[3], op[4]})
         THEN Aborted(st, IndexOutOfBounds)
         ELSE EvaluateStoreBool(st, op[2],
                  IF op[1] = "Mul"
                  THEN st.bool_wires[op[3] + 1] /\ st.bool_wires[op[4] + 1]
                  ELSE st.bool_wires[op[3] + 1] # st.bool_wires[op[4] + 1])
    ELSE IF ~InBounds(st.bool_wires, {op[3]}) THEN Aborted(st, IndexOutOfBounds)
    ELSE EvaluateStoreBool(st, op[2],
             IF op[1] = "MulConst" THEN st.bool_wires[op[3] + 1] /\ op[4]
             ELSE st.bool_wires[op[3] + 1] # op[4])

(* The arms of `match *z64_insn`. *)
EvaluateZ64(st, op, random) ==
    IF op[1] = "Input"
    THEN IF st.arith_inputs = <<>>
         THEN Aborted(st, Panic("Ran out of arithmetic inputs"))
         ELSE EvaluateStoreArith([st EXCEPT !.arith_inputs = Tail(@)], op[2],
                            Head(st.arith_inputs))
    ELSE IF op[1] = "Random" THEN EvaluateStoreArith(st, op[2], random)
    ELSE IF op[1] = "Const" THEN EvaluateStoreArith(st, op[2], op[3])
    ELSE IF op[1] = "AssertZero"
    THEN IF ~InBounds(st.arith_wires, {op[2]}) THEN Aborted(st, IndexOutOfBounds)
         ELSE IF st.arith_wires[op[2] + 1] # U64Zero
         THEN Aborted(st, Panic("assertion failed: left == right"))
         ELSE st
    ELSE IF op[1] \in BinaryOps
    THEN IF ~InBounds(st.arith_wires, {op[3], op[4]})
         THEN Aborted(st, IndexOutOfBounds)
         ELSE EvaluateStoreArith(st, op[2],
                  IF op[1] = "Add"
                  THEN wrapping_add(st.arith_wires[op[3] + 1],
                                    st.arith_wires[op[4] + 1])
                  ELSE IF op[1] = "Sub"
                  THEN wrapping_sub(st.arith_wires[op[3] + 1],
                                    st.arith_wires[op[4] + 1])
                  ELSE wrapping_mul(st.arith_wires[op[3] + 1],
                                    st.arith_wires[op[4] + 1]))
    ELSE IF ~InBounds(st.arith_wires, {op[3]}) THEN Aborted(st, IndexOutOfBounds)
    ELSE EvaluateStoreArith(st, op[2],
             IF op[1] = "AddConst"
             THEN wrapping_add(st.arith_wires[op[3] + 1], op[4])
             ELSE IF op[1] = "SubConst"
             THEN wrapping_sub(st.arith_wires[op[3] + 1], op[4])
             ELSE wrapping_mul(st.arith_wires[op[3] + 1], op[4]))

EvaluateB2A(st, to, low) ==
    EvaluateStoreArith(st, to, B2AValue(st.bool_wires, low))

EvaluateSizeHint(st, z64, gf2) ==
    [st EXCEPT !.bool_wires = IF Len(@) < gf2 THEN Resize(@, gf2, FALSE)
                              ELSE @,
               !.arith_wires = IF Len(@) < z64 THEN Resize(@, z64, U64Zero)
                               ELSE @]

(* One iteration of `for step in program`. *)
EvaluateGate(st, prog, random) ==
    Only({Only({IF IsPanic(next.fatal) THEN next
                ELSE [next EXCEPT
                        !.step = @ + 1,
                        !.at = IF st.step + 1 = Len(prog.gates) THEN "done"
                               ELSE "loop"] :
                next \in {IF g[1] = "GF2" THEN EvaluateGF2(st, g[2], random)
                          ELSE IF g[1] = "Z64" THEN EvaluateZ64(st, g[2], random)
                          ELSE IF g[1] = "B2A" THEN EvaluateB2A(st, g[2], g[3])
                          ELSE EvaluateSizeHint(st, g[2], g[3])}}) :
          g \in {prog.gates[st.step + 1]}})

(* dump_vcd: the wire counts, the arrays and the input iterators. *)
DumpBegin(st, prog) ==
    Only({IF counts = Panicked THEN Aborted(st, IndexOutOfBounds)
          ELSE [st EXCEPT !.at = "loop",
                          !.bool_wires = Vec(FALSE, counts[1]),
                          !.arith_wires = Vec(U64Zero, counts[2]),
                          !.bool_inputs = prog.bool_inputs,
                          !.arith_inputs = prog.arith_inputs] :
          counts \in {largest_wires(prog.gates)}})

DumpStoreBool(st, to, val) ==
    IF ~InBounds(st.bool_wires, {to}) THEN Aborted(st, IndexOutOfBounds)
    ELSE [st EXCEPT !.bool_wires[to + 1] = val,
                    !.vcd = Append(@, <<"dump_bool", to, val>>)]

DumpStoreArith(st, to, val) ==
    IF ~InBounds(st.arith_wires, {to}) THEN Aborted(st, IndexOutOfBounds)
    ELSE [st EXCEPT !.arith_wires[to + 1] = val,
                    !.vcd = Append(@, <<"dump_arith", to, val>>)]

(* The arms of `match *gf2_insn`. *)
DumpGF2(st, op, random) ==
    IF op[1] = "Input"
    THEN IF st.bool_inputs = <<>>
         THEN Aborted(st, Panic("Ran out of boolean inputs"))
         ELSE DumpStoreBool([st EXCEPT !.bool_inputs = Tail(@)], op[2],
                           Head(st.bool_inputs))
    ELSE IF op[1] = "Random" THEN DumpStoreBool(st, op[2], random)
    ELSE IF op[1] = "Const" THEN DumpStoreBool(st, op[2], op[3])
    ELSE IF op[1] = "AssertZero"
    THEN IF ~InBounds(st.bool_wires, {op[2]}) THEN Aborted(st, IndexOutOfBounds)
         ELSE IF ~st.bool_wires[op[2] + 1]
         THEN [st EXCEPT !.stdout =
                 Append(@, <<"Expected false for boolean wire", op[2]>>)]
         ELSE st
    ELSE IF op[1] \in BinaryOps
    THEN IF ~InBounds(st.bool_wires, {op[3], op[4]})
         THEN Aborted(st, IndexOutOfBounds)
         ELSE DumpStoreBool(st, op[2],
                  IF op[1] = "Mul"
                  THEN st.bool_wires[op[3] + 1] /\ st.bool_wires[op[4] + 1]
                  ELSE st.bool_wires[op[3] + 1] # st.bool_wires[op[4] + 1])
    ELSE IF ~InBounds(st.bool_wires, {op[3]}) THEN Aborted(st, IndexOutOfBounds)
    ELSE DumpStoreBool(st, op[2],
             IF op[1] = "MulConst" THEN st.bool_wires[op[3] + 1] /\ op[4]
             ELSE st.bool_wires[op[3] + 1] # op[4])

(* The arms of `match *z64_insn`. *)
DumpZ64(st, op, random) ==
    IF op[1] = "Input"
    THEN IF st.arith_inputs = <<>>
         THEN Aborted(st, Panic("Ran out of arithmetic inputs"))
         ELSE DumpStoreArith([st EXCEPT !.arith_inputs = Tail(@)], op[2],
                            Head(st.arith_inputs))
    ELSE IF op[1] = "Random" THEN DumpStoreArith(st, op[2], random)
    ELSE IF op[1] = "Const" THEN DumpStoreArith(st, op[2], op[3])
    ELSE IF op[1] = "AssertZero"
    THEN IF ~InBounds(st.arith_wires, {op[2]}) THEN Aborted(st, IndexOutOfBounds)
         ELSE IF st.arith_wires[op[2] + 1] # U64Zero
         THEN [st EXCEPT !.stdout =
                 Append(@, <<"Expected 0 for arithmetic wire", op[2]>>)]
         ELSE st
    ELSE IF op[1] \in BinaryOps
    THEN IF ~InBounds(st.arith_wires, {op[3], op[4]})
         THEN Aborted(st, IndexOutOfBounds)
         ELSE DumpStoreArith(st, op[2],
                  IF op[1] = "Add"
                  THEN wrapping_add(st.arith_wires[op[3] + 1],
                                    st.arith_wires[op[4] + 1])
                  ELSE IF op[1] = "Sub"
                  THEN wrapping_sub(st.arith_wires[op[3] + 1],
                                    st.arith_wires[op[4] + 1])
                  ELSE wrapping_mul(st.arith_wires[op[3] + 1],
                                    st.arith_wires[op[4] + 1]))
    ELSE IF ~InBounds(st.arith_wires, {op[3]}) THEN Aborted(st, IndexOutOfBounds)
    ELSE DumpStoreArith(st, op[2],
             IF op[1] = "AddConst"
             THEN wrapping_add(st.arith_wires[op[3] + 1], op[4])
             ELSE IF op[1] = "SubConst"
             THEN wrapping_sub(st.arith_wires[op[3] + 1], op[4])
             ELSE wrapping_mul(st.arith_wires[op[3] + 1], op[4]))

DumpB2A(st, to, low) ==
    DumpStoreArith(st, to, B2AValue(st.bool_wires, low))

DumpSizeHint(st, z64, gf2) ==
    [st EXCEPT !.bool_wires = IF Len(@) < gf2 THEN Resize(@, gf2, FALSE)
                              ELSE @,
               !.arith_wires = IF Len(@) < z64 THEN Resize(@, z64, U64Zero)
                               ELSE @]

(* One iteration of `for step in program` of dump_vcd; dumper.finish() follows the
   last one. *)
DumpGate(st, prog, random) ==
    Only({Only({IF IsPanic(next.fatal) THEN next
                ELSE [next EXCEPT
                        !.step = @ + 1,
                        !.at = IF st.step + 1 = Len(prog.gates) THEN "done"
                               ELSE "loop"] :
                next \in {IF g[1] = "GF2" THEN DumpGF2(st, g[2], random)
                          ELSE IF g[1] = "Z64" THEN DumpZ64(st, g[2], random)
                          ELSE IF g[1] = "B2A" THEN DumpB2A(st, g[2], g[3])
                          ELSE DumpSizeHint(st, g[2], g[3])}}) :
          g \in {prog.gates[st.step + 1]}})

(***************************************************************************)
(* SpecEval: evaluate_composite_program and dump_vcd run on one program    *)
(* and one pair of input slices, each at its own pace.                     *)
(***************************************************************************)
MaxProgram == 3

(* Gates of both domains, two conversions, of which the second overflows a
   usize, and a size hint that covers every wire the other samples name. *)
EvalGateSamples ==
    {<<"GF2", <<"Input", 0>>>>,
     <<"GF2", <<"Const", 2, TRUE>>>>,
     <<"GF2", <<"Add", 1, 0, 1>>>>,
     <<"GF2", <<"AssertZero", 0>>>>,
     <<"GF2", <<"Random", 0>>>>,
     <<"Z64", <<"Input", 0>>>>,
     <<"Z64", <<"SubConst", 1, 0, U64One>>>>,
     <<"Z64", <<"Mul", 1, 0, 0>>>>,
     <<"Z64", <<"AssertZero", 1>>>>,
     <<"B2A", 0, 1>>,
     <<"B2A", 1, UsizeMax>>,
     <<"SizeHint", 2, B2AWidth + 1>>}

(* The slices bool_inputs and arith_inputs. *)
EvalInputSamples ==
    {<<<<>>, <<>>>>,
     <<<<TRUE, TRUE, FALSE>>, <<U64Two, U64Two, U64Two>>>>}

(* rand::random() *)
RandomValues(g) ==
    IF g[1] \notin {"GF2", "Z64"} THEN {FALSE}
    ELSE IF g[2][1] # "Random" THEN {FALSE}
    ELSE IF g[1] = "GF2" THEN BOOLEAN
    ELSE {U64Zero, U64Max}

NotRun ==
    [at |-> "start", step |-> 0, fatal |-> None,
     bool_wires |-> <<>>, arith_wires |-> <<>>,
     bool_inputs |-> <<>>, arith_inputs |-> <<>>]

NotDumped ==
    [at |-> "start", step |-> 0, fatal |-> None,
     bool_wires |-> <<>>, arith_wires |-> <<>>,
     bool_inputs |-> <<>>, arith_inputs |-> <<>>,
     vcd |-> <<>>, stdout |-> <<>>]

(* The gate algebra, the registry and the parser, unused. *)
InitOthersOfInterpreters ==
    /\ gate = <<"Input", 0>>
    /\ dom = "bool"
    /\ call = <<"new", 0>>
    /\ ret = None
    /\ hasher = <<>>
    /\ queried = <<>>
    /\ returned = <<>>
    /\ reader = None
    /\ parsed = FALSE
    /\ circuit = <<>>
    /\ fatal = None
    /\ log = <<>>

(* Only a B2A whose low + 63 exceeds usize::MAX makes the build matter. *)
InitEval ==
    /\ \E gates \in SeqsUpTo(EvalGateSamples, MaxProgram) :
       \E given \in EvalInputSamples :
          /\ program = [gates |-> gates, bool_inputs |-> given[1],
                        arith_inputs |-> given[2]]
          /\ debug_assertions \in
                IF \E i \in 1..Len(gates) : gates[i] = <<"B2A", 1, UsizeMax>>
                THEN BOOLEAN ELSE {TRUE}
    /\ evaluation = NotRun
    /\ dump = NotDumped
    /\ witness = <<>>
    /\ InitOthersOfInterpreters

Interpreting(st) == st.at = "loop" /\ st.fatal = None

EvaluateCall ==
    /\ evaluation.at = "start"
    /\ evaluation.fatal = None
    /\ evaluation' = EvaluateBegin(evaluation, program)
    /\ UNCHANGED <<gateVars, debug_assertions, hasher, hasherVars, parserVars,
                   program, dump, witness>>

EvaluateLoop ==
    /\ Interpreting(evaluation)
    /\ \E random \in RandomValues(program.gates[evaluation.step + 1]) :
          evaluation' = EvaluateGate(evaluation, program, random)
    /\ UNCHANGED <<gateVars, debug_assertions, hasher, hasherVars, parserVars,
                   program, dump, witness>>

DumpCall ==
    /\ dump.at = "start"
    /\ dump.fatal = None
    /\ dump' = DumpBegin(dump, program)
    /\ UNCHANGED <<gateVars, debug_assertions, hasher, hasherVars, parserVars,
                   program, evaluation, witness>>

DumpLoop ==
    /\ Interpreting(dump)
    /\ \E random \in RandomValues(program.gates[dump.step + 1]) :
          dump' = DumpGate(dump, program, random)
    /\ UNCHANGED <<gateVars, debug_assertions, hasher, hasherVars, parserVars,
                   program, evaluation, witness>>

NextEval == EvaluateCall \/ EvaluateLoop \/ DumpCall \/ DumpLoop

SpecEval == InitEval /\ [][NextEval]_vars

(***************************************************************************)
(* Properties of the interpreters (SpecEval).                              *)
(***************************************************************************)
(* The ids a gate names in the arithmetic and in the boolean domain; a B2A
   names its destination and the last wire it reads, low + 63. *)
ArithIds(g) ==
    IF g[1] = "Z64" THEN ArmWires(g[2])
    ELSE IF g[1] = "B2A" THEN {g[2]}
    ELSE {}

BoolIds(g) ==
    IF g[1] = "GF2" THEN ArmWires(g[2])
    ELSE IF g[1] = "B2A" THEN {g[3] + (B2AWidth - 1)}
    ELSE {}

(* A size hint that is not the first element, read as the ids it holds. *)
HintedIds(g, k) == IF g[1] = "SizeHint" THEN {g[k]} ELSE {}

(* The largest id of a set, 0 for a domain that has no wire. *)
LargestId(S) == MaxOf(S \cup {0})

IdsOver(prog, F(_)) == UNION {F(prog[i]) : i \in 1..Len(prog)}

(* No count of the program exceeds usize::MAX. *)
Countable(prog) ==
    \A i \in 1..Len(prog) :
        \A id \in ArithIds(prog[i]) \cup BoolIds(prog[i]) : id < UsizeMax

Arith2(g) == ArithIds(g) \cup HintedIds(g, 2)

Bool3(g) == BoolIds(g) \cup HintedIds(g, 3)

(* C26 as amended: for a program that is not empty and whose counts fit a
   usize, largest_wires returns the pair (arithmetic count, boolean count):
   the two values of the SizeHint when the first element is one, otherwise
   (largest arithmetic id + 1, largest boolean id + 1) over all gates, a
   B2A(dst, low) counting dst as arithmetic and low + 63 as boolean, and a
   SizeHint(z64, gf2) that is not first counting z64 as an arithmetic and
   gf2 as a boolean id.  On the empty program the call panics. *)
C26_LargestWires ==
    /\ program.gates = <<>> => largest_wires(program.gates) = Panicked
    /\ program.gates # <<>> /\ Countable(program.gates) =>
          largest_wires(program.gates) =
             IF program.gates[1][1] = "SizeHint"
             THEN <<program.gates[1][2], program.gates[1][3]>>
             ELSE <<LargestId(IdsOver(program.gates, Arith2)) + 1,
                    LargestId(IdsOver(program.gates, Bool3)) + 1>>

(* C26 as written: for every program, the SizeHint's values when it is
   first, otherwise the largest ids + 1 over the gates alone. *)
C26_LargestWiresOfGates ==
    Countable(program.gates) =>
       largest_wires(program.gates) =
          IF program.gates # <<>> /\ program.gates[1][1] = "SizeHint"
          THEN <<program.gates[1][2], program.gates[1][3]>>
          ELSE <<LargestId(IdsOver(program.gates, ArithIds)) + 1,
                 LargestId(IdsOver(program.gates, BoolIds)) + 1>>

(* evaluate_composite_program has asked for the counts of a program of a
   boolean gate, an arithmetic gate and a B2A, without a size hint. *)
C26_Witness ==
    /\ evaluation.at = "loop"
    /\ Len(program.gates) = 3
    /\ \A i \in 1..3 : program.gates[i][1] # "SizeHint"
    /\ {program.gates[i][1] : i \in 1..3} = {"GF2", "Z64", "B2A"}
    /\ Countable(program.gates)
    /\ largest_wires(program.gates) = <<2, B2AWidth + 1>>

C26_WitnessHinted ==
    /\ evaluation.at = "loop"
    /\ Len(program.gates) = 2
    /\ program.gates[1] = <<"SizeHint", 2, B2AWidth + 1>>
    /\ largest_wires(program.gates) = <<2, B2AWidth + 1>>

(* The Input gates of a domain in a program. *)
InputGates(prog, wrapper) ==
    {i \in 1..Len(prog) : prog[i][1] = wrapper /\ prog[i][2][1] = "Input"}

EnoughInputs ==
    /\ Len(program.bool_inputs) >= Cardinality(InputGates(program.gates, "GF2"))
    /\ Len(program.arith_inputs) >= Cardinality(InputGates(program.gates, "Z64"))

Unhinted(prog) == \A i \in 1..Len(prog) : prog[i][1] # "SizeHint"

(* The leading SizeHint(z64, gf2) is at least the counts the program uses. *)
CoveringHint(prog) ==
    /\ prog[1][1] = "SizeHint"
    /\ prog[1][2] >= LargestId(IdsOver(prog, ArithIds)) + 1
    /\ prog[1][3] >= LargestId(IdsOver(prog, BoolIds)) + 1

(* The arrays of a run hold every wire of the program. *)
ArraysCover(st, prog) ==
    /\ Len(st.bool_wires) >= LargestId(IdsOver(prog, BoolIds)) + 1
    /\ Len(st.arith_wires) >= LargestId(IdsOver(prog, ArithIds)) + 1

(* C25: for every non-empty program without a SizeHint, and for every
   program whose leading SizeHint is at least the wire counts it uses,
   given enough inputs, evaluate_composite_program resolves every wire: the
   boolean array has at least (largest boolean id + 1) cells and the
   arithmetic array at least (largest arithmetic id + 1) cells (from the
   first gate on without a hint, from the hint's resize on with one), and
   no gate reads or writes outside its domain's array. *)
C25_WiresResolved ==
    /\ program.gates # <<>>
    /\ Countable(program.gates)
    /\ EnoughInputs
    /\ Unhinted(program.gates) \/ CoveringHint(program.gates)
    => /\ evaluation.fatal # IndexOutOfBounds
       /\ /\ evaluation.at \in {"loop", "done"}
          /\ Unhinted(program.gates) \/ evaluation.step >= 1
          => ArraysCover(evaluation, program.gates)

(* The half of C25 the code keeps: with a covering leading hint. *)
C25_HintedResolved ==
    /\ program.gates # <<>>
    /\ Countable(program.gates)
    /\ EnoughInputs
    /\ CoveringHint(program.gates)
    => /\ evaluation.fatal # IndexOutOfBounds
       /\ evaluation.step >= 1 => ArraysCover(evaluation, program.gates)

(* The value of boolean wire k in an array: a wire the array does not hold
   was never written and counts as false, the value of a fresh cell. *)
WireAt(bool_wires, k) == k < Len(bool_wires) /\ bool_wires[k + 1]

(* The gate the run of evaluate_composite_program executes next. *)
EvaluatedGate == program.gates[evaluation.step + 1]

(* C27: evaluating B2A(dst, low) stores in arithmetic wire dst the sum for
   i = 0..63 of (boolean wire low + i) * 2^i, least-significant bit first,
   and changes no other wire of either domain. *)
C27_B2AValue ==
    [][/\ Interpreting(evaluation)
       /\ EvaluatedGate[1] = "B2A"
       /\ evaluation'.step = evaluation.step + 1
       => /\ evaluation'.arith_wires[EvaluatedGate[2] + 1] =
                {i \in 0..63 :
                    WireAt(evaluation.bool_wires, EvaluatedGate[3] + i)}
          /\ Len(evaluation'.arith_wires) = Len(evaluation.arith_wires)
          /\ \A k \in 1..Len(evaluation.arith_wires) :
                k # EvaluatedGate[2] + 1 =>
                   evaluation'.arith_wires[k] = evaluation.arith_wires[k]
          /\ evaluation'.bool_wires = evaluation.bool_wires]_vars

(* B2A(0, 1) has been evaluated over 65 boolean wires of which wire 2 alone
   is true: arithmetic wire 0 holds 2. *)
C27_Witness ==
    /\ evaluation.step = 3
    /\ evaluation.fatal = None
    /\ program.gates[3] = <<"B2A", 0, 1>>
    /\ Len(evaluation.bool_wires) = B2AWidth + 1
    /\ evaluation.bool_wires[3]
    /\ evaluation.arith_wires[1] = U64Two

NoRandom(prog) ==
    \A i \in 1..Len(prog) :
        prog[i][1] \in {"GF2", "Z64"} => prog[i][2][1] # "Random"

(* The gates that have an output wire, and that wire. *)
HasOutput(g) ==
    \/ g[1] = "B2A"
    \/ g[1] \in {"GF2", "Z64"} /\ g[2][1] # "AssertZero"

OutputOf(g) == IF g[1] = "B2A" THEN g[2] ELSE g[2][2]

(* The records dump_vcd owes for the first n gates: per gate with an output
   its call (dump_bool or dump_arith) and its wire, in program order. *)
RECURSIVE RecordsOwed(_, _)
RecordsOwed(prog, n) ==
    IF n = 0 THEN <<>>
    ELSE RecordsOwed(prog, n - 1)
         \o (IF HasOutput(prog[n])
             THEN <<<<IF prog[n][1] = "GF2" THEN "dump_bool" ELSE "dump_arith",
                      OutputOf(prog[n])>>>>
             ELSE <<>>)

(* After the same number of gates the two runs hold the same wires. *)
SameWires ==
    /\ evaluation.at \in {"loop", "done"}
    /\ dump.at \in {"loop", "done"}
    /\ evaluation.step = dump.step
    => /\ evaluation.bool_wires = dump.bool_wires
       /\ evaluation.arith_wires = dump.arith_wires

(* dump_vcd has emitted one record per gate with an output, in order, and
   the record holds the value the wire has after the gate. *)
OneRecordPerOutput ==
    /\ Len(dump.vcd) = Len(RecordsOwed(program.gates, dump.step))
    /\ \A k \in 1..Len(dump.vcd) :
          <<dump.vcd[k][1], dump.vcd[k][2]>> =
             RecordsOwed(program.gates, dump.step)[k]
    /\ dump.vcd # <<>> /\ HasOutput(program.gates[dump.step]) =>
          dump.vcd[Len(dump.vcd)][3] =
             IF dump.vcd[Len(dump.vcd)][1] = "dump_bool"
             THEN dump.bool_wires[dump.vcd[Len(dump.vcd)][2] + 1]
             ELSE dump.arith_wires[dump.vcd[Len(dump.vcd)][2] + 1]

(* The wire an AssertZero gate asserts is true (boolean) or non-zero
   (arithmetic) in the arrays of a run. *)
AssertedSet(st, g) ==
    IF g[1] = "GF2" THEN st.bool_wires[g[2][2] + 1]
    ELSE st.arith_wires[g[2][2] + 1] # U64Zero

IsAssertZero(g) == g[1] \in {"GF2", "Z64"} /\ g[2][1] = "AssertZero"

(* evaluate_composite_program aborts at an AssertZero gate exactly when the
   asserted wire is set. *)
EvaluateAbortsWhereSet ==
    /\ Interpreting(evaluation)
    /\ IsAssertZero(EvaluatedGate)
    /\ InBounds(IF EvaluatedGate[1] = "GF2" THEN evaluation.bool_wires
                ELSE evaluation.arith_wires, {EvaluatedGate[2][2]})
    /\ evaluation' # evaluation
    => (IsPanic(evaluation'.fatal) <=> AssertedSet(evaluation, EvaluatedGate))

(* dump_vcd reports at an AssertZero gate exactly when the asserted wire is
   set. *)
DumpReportsWhereSet ==
    /\ Interpreting(dump)
    /\ IsAssertZero(program.gates[dump.step + 1])
    /\ dump'.step = dump.step + 1
    => (Len(dump'.stdout) = Len(dump.stdout) + 1
           <=> AssertedSet(dump, program.gates[dump.step + 1]))

(* C29: on the same program and inputs, without a Random gate, dump_vcd and
   evaluate_composite_program hold the same boolean and arithmetic wire
   values after every gate, dump_vcd emits one value record per gate that
   has an output wire, in program order, and dump_vcd reports an assertion
   failure for an AssertZero gate exactly where evaluate_composite_program
   aborts: when the asserted wire is true or non-zero, in both domains. *)
C29_DumpMatchesEvaluate ==
    /\ [](NoRandom(program.gates) => SameWires /\ OneRecordPerOutput)
    /\ [][NoRandom(program.gates) =>
             EvaluateAbortsWhereSet /\ DumpReportsWhereSet]_vars

(* The parts of C29 other than the boolean report. *)
C29_WiresAndRecords == NoRandom(program.gates) => SameWires /\ OneRecordPerOutput

C29_ArithmeticReports ==
    [][/\ EvaluateAbortsWhereSet
       /\ Interpreting(dump) /\ program.gates[dump.step + 1][1] = "Z64"
          => DumpReportsWhereSet]_vars

(***************************************************************************)
(* parsers/witness.rs: WitnessParser<R, L> { buf, reader }.  The reader is *)
(* the sequence of the characters not read yet.  `L`, `given` (the whole   *)
(* stream) and `returned` (what the calls of next returned) are kept for   *)
(* the properties.                                                         *)
(***************************************************************************)
MaxStream == 4

MaxStep == 2

MaxItems == 3

CharSamples == {"0", "1", "\n", "x"}

(* BufRead::read_line: the characters up to and including the first line
   feed, or all that is left when there is none. *)
LineLen(chars) ==
    IF \E i \in 1..Len(chars) : chars[i] = "\n"
    THEN CHOOSE i \in 1..Len(chars) :
            chars[i] = "\n" /\ \A j \in 1..(i - 1) : chars[j] # "\n"
    ELSE Len(chars)

read_line(chars) == SubSeq(chars, 1, LineLen(chars))

(* The closure of the map: '0' => false, '1' => true. *)
BitOf(c) == c = "1"

(* WitnessParser::next of the Parse trait, which Iterator::next calls:
   read_line appends to buf, the characters of buf are mapped to bits, the
   first one that is neither '0' nor '1' panics, a bit count other than L
   panics, else buf is cleared and Some(bits) returned. *)
WitnessParserNext(self) ==
    Only({IF \E i \in 1..Len(buf) : buf[i] \notin {"0", "1"}
          THEN [self EXCEPT
                  !.buf = buf,
                  !.reader = SubSeq(@, Len(read_line(@)) + 1, Len(@)),
                  !.fatal = Panic("bad bit in witness!")]
          ELSE IF Len(buf) # self.L
          THEN [self EXCEPT
                  !.buf = buf,
                  !.reader = SubSeq(@, Len(read_line(@)) + 1, Len(@)),
                  !.fatal = Panic("invalid trace step length!")]
          ELSE [self EXCEPT
                  !.buf = <<>>,
                  !.reader = SubSeq(@, Len(read_line(@)) + 1, Len(@)),
                  !.returned = Append(@, Some([i \in 1..Len(buf) |->
                                                  BitOf(buf[i])]))] :
          buf \in {self.buf \o read_line(self.reader)}})

(* WitnessParser::new on a stream. *)
WitnessParser_new(stream, L) ==
    [buf |-> <<>>, reader |-> stream, L |-> L, given |-> stream,
     returned |-> <<>>, fatal |-> None]

InitWitness ==
    /\ \E stream \in SeqsUpTo(CharSamples, MaxStream) :
       \E L \in 0..MaxStep :
          witness = WitnessParser_new(stream, L)
    /\ program = <<>>
    /\ evaluation = <<>>
    /\ dump = <<>>
    /\ debug_assertions = TRUE
    /\ InitOthersOfInterpreters

(* Iterator::next; a step length of 0 yields empty arrays without end, the
   model stops calling after MaxItems of them. *)
WitnessNext ==
    /\ witness.fatal = None
    /\ Len(witness.returned) < MaxItems
    /\ witness' = WitnessParserNext(witness)
    /\ UNCHANGED <<gateVars, debug_assertions, hasher, hasherVars, parserVars,
                   program, evaluation, dump>>

NextWitness == WitnessNext

SpecWitness == InitWitness /\ [][NextWitness]_vars

(***************************************************************************)
(* Properties of the witness parser (SpecWitness).                         *)
(***************************************************************************)
(* The lines of a stream whose every line ends in a line feed. *)
RECURSIVE LinesOf(_)
LinesOf(chars) ==
    IF chars = <<>> THEN <<>>
    ELSE <<SubSeq(chars, 1, LineLen(chars) - 1)>>
         \o LinesOf(SubSeq(chars, LineLen(chars) + 1, Len(chars)))

(* n newline-terminated lines of exactly L characters '0' or '1'. *)
WellFormedTrace(chars, L) ==
    /\ chars = <<>> \/ chars[Len(chars)] = "\n"
    /\ \A k \in 1..Len(LinesOf(chars)) :
          /\ Len(LinesOf(chars)[k]) = L
          /\ \A i \in 1..L : LinesOf(chars)[k][i] \in {"0", "1"}

(* C30: iterating a WitnessParser with step length L over n
   newline-terminated lines of exactly L characters '0' or '1' yields the n
   bit arrays in line order and then ends (next returns None), without a
   fatal error. *)
C30_IteratesTrace ==
    WellFormedTrace(witness.given, witness.L) =>
       /\ witness.fatal = None
       /\ Len(witness.returned) <= Len(LinesOf(witness.given)) + 1
       /\ \A k \in 1..Len(witness.returned) :
             witness.returned[k] =
                IF k <= Len(LinesOf(witness.given))
                THEN Some([i \in 1..witness.L |->
                             BitOf(LinesOf(witness.given)[k][i])])
                ELSE None

(* What the parser does yield: lines that are not newline-terminated. *)
C30_UnterminatedYields ==
    /\ witness.L = 2
    /\ witness.given = <<"0", "1">>
    /\ witness.returned = <<Some(<<FALSE, TRUE>>)>>
    /\ witness.fatal = Panic("invalid trace step length!")

====
